---- MODULE Spec2Model ----
(***************************************************************************)
(* Akashvani AI: the conversational orchestration pipeline.                *)
(*                                                                         *)
(* The model follows the Python sources: services/ai_service.py (intent    *)
(* classifier and its keyword fallback), services/news_service.py (news    *)
(* client), services/speech_service.py (transcriber, synthesizer, voice    *)
(* formatter), services/conversation_handler.py (the orchestrator and its  *)
(* session) and main.py (HTTP handlers and the audio blob registry).       *)
(*                                                                         *)
(* Python strings are TLA+ strings.  Every other Python value is a tagged  *)
(* record (StrV, NoneV, NumV, ListV, DictV, BytesV), so that values of     *)
(* different Python types can be compared.  A call either returns a value  *)
(* (Ret) or raises (Raise).  The external providers (language model, news  *)
(* API, speech API) are inputs: each call's outcome is chosen from a set.  *)
(***************************************************************************)
EXTENDS Integers, Sequences, FiniteSets, TLC

VARIABLES
    conversation_history,  \* AIService.conversation_history
    current_session,       \* ConversationHandler.current_session
    audio_storage,         \* main.audio_storage
    next_audio_id,         \* the identifiers uuid4 has handed out so far
    op                     \* the operation that ran last: inputs, calls, result

vars == <<conversation_history, current_session, audio_storage, next_audio_id, op>>

-----------------------------------------------------------------------------
(* Python values *)

StrV(s) == [t |-> "str", s |-> s]
NoneV == [t |-> "none"]
NumV(n) == [t |-> "num", n |-> n]
ListV(items) == [t |-> "list", items |-> items]
DictV(d) == [t |-> "dict", d |-> d]
BytesV(b) == [t |-> "bytes", b |-> b]

EmptyDict == <<>>

Ret(v) == [ret |-> v]
Raise(e) == [raised |-> e]
IsRet(r) == "ret" \in DOMAIN r
IsRaise(r) == "raised" \in DOMAIN r

\* bool(v): Python truthiness
Truthy(v) ==
    CASE v.t = "none" -> FALSE
      [] v.t = "str" -> v.s # ""
      [] v.t = "num" -> v.n # 0
      [] v.t = "list" -> Len(v.items) > 0
      [] v.t = "dict" -> DOMAIN v.d # {}
      [] v.t = "bytes" -> v.b # ""

\* d.get(k, default) on a Python dict d
DictGet(d, k, default) == IF k \in DOMAIN d THEN d[k] ELSE default

\* d.update(e) on Python dicts
DictUpdate(d, e) == e @@ d

RECURSIVE JoinStr(_, _)
JoinStr(sep, parts) ==
    IF Len(parts) = 0 THEN ""
    ELSE IF Len(parts) = 1 THEN parts[1]
    ELSE parts[1] \o sep \o JoinStr(sep, Tail(parts))

\* repr(v) and str(v), as an f-string interpolates a value.  Objects are
\* rendered for the empty dict only: no input places a non-empty object where
\* the code interpolates.
RECURSIVE Repr(_)
Repr(v) ==
    CASE v.t = "none" -> "None"
      [] v.t = "str" -> "'" \o v.s \o "'"
      [] v.t = "num" -> ToString(v.n)
      [] v.t = "list" -> "[" \o JoinStr(", ", [i \in 1..Len(v.items) |-> Repr(v.items[i])]) \o "]"
      [] v.t = "dict" -> "{}"
      [] v.t = "bytes" -> "b'" \o v.b \o "'"

Str(v) == IF v.t = "str" THEN v.s ELSE Repr(v)

\* sub in s, for Python strings
Contains(sub, s) ==
    \E i \in 1..(Len(s) - Len(sub) + 1) : SubSeq(s, i, i + Len(sub) - 1) = sub

UpperLetters == "ABCDEFGHIJKLMNOPQRSTUVWXYZ"
LowerLetters == "abcdefghijklmnopqrstuvwxyz"

LowerOf ==
    [c \in {SubSeq(UpperLetters, i, i) : i \in 1..Len(UpperLetters)} |->
        LET i == CHOOSE i \in 1..Len(UpperLetters) : SubSeq(UpperLetters, i, i) = c
        IN  SubSeq(LowerLetters, i, i)]

LowerChar(c) == IF c \in DOMAIN LowerOf THEN LowerOf[c] ELSE c

\* s.lower(): every character lowered, the halves joined
RECURSIVE Lower(_)
Lower(s) ==
    IF Len(s) = 0 THEN ""
    ELSE IF Len(s) = 1 THEN LowerChar(s)
    ELSE LET half == Len(s) \div 2
         IN  Lower(SubSeq(s, 1, half)) \o Lower(SubSeq(s, half + 1, Len(s)))

IsSpace(c) == c = " " \/ c = "\n" \/ c = "\t"

\* s.strip()
RECURSIVE LStrip(_)
LStrip(s) ==
    IF Len(s) > 0 /\ IsSpace(SubSeq(s, 1, 1)) THEN LStrip(SubSeq(s, 2, Len(s))) ELSE s

RECURSIVE RStrip(_)
RStrip(s) ==
    IF Len(s) > 0 /\ IsSpace(SubSeq(s, Len(s), Len(s)))
    THEN RStrip(SubSeq(s, 1, Len(s) - 1)) ELSE s

Strip(s) == LStrip(RStrip(s))

-----------------------------------------------------------------------------
(* config.py *)

NEWS_CATEGORIES ==
    <<"technology", "politics", "sports", "entertainment", "business", "health", "science">>

-----------------------------------------------------------------------------
(* The language model's replies.  json.loads is modelled on the reply texts *)
(* below: each is the text the model sent, and json_loads gives the value   *)
(* the parser builds from it.  Any other text is not JSON.                  *)

J_sports == "{\"intent\": \"news_category\", \"category\": \"sports\", \"response\": \"Sports coming up!\", \"action\": \"fetch_news\"}"
J_general == "{\"intent\": \"news_category\", \"category\": \"general\", \"response\": \"Your briefing.\", \"action\": \"fetch_news\"}"
J_search == "{\"intent\": \"news_search\", \"search_query\": \"mars\", \"response\": \"Searching.\", \"action\": \"search_news\"}"
J_search_empty == "{\"intent\": \"news_search\", \"search_query\": \"\", \"response\": \"Searching.\", \"action\": \"search_news\"}"
J_greeting == "{\"intent\": \"greeting\", \"response\": \"Namaste! I am Akashvani AI.\", \"action\": \"respond_only\"}"
J_fetch_nocat == "{\"action\": \"fetch_news\"}"
J_fetch_nullcat == "{\"action\": \"fetch_news\", \"category\": null}"
J_search_noquery == "{\"action\": \"search_news\"}"
J_null_response == "{\"intent\": \"help\", \"response\": null, \"action\": \"respond_only\"}"
J_empty_object == "{}"
J_dance == "{\"intent\": \"help\", \"response\": \"Let us dance.\", \"action\": \"dance\"}"
J_string == "\"hello there\""
J_number == "42"
J_array == "[]"
J_null == "null"
T_prose == "I think you want the sports news."
T_truncated == "{\"intent\": \"news_category\", \"categ"

json_loads(s) ==
    CASE s = J_sports -> Ret(DictV([intent |-> StrV("news_category"), category |-> StrV("sports"),
                                    response |-> StrV("Sports coming up!"), action |-> StrV("fetch_news")]))
      [] s = J_general -> Ret(DictV([intent |-> StrV("news_category"), category |-> StrV("general"),
                                     response |-> StrV("Your briefing."), action |-> StrV("fetch_news")]))
      [] s = J_search -> Ret(DictV([intent |-> StrV("news_search"), search_query |-> StrV("mars"),
                                    response |-> StrV("Searching."), action |-> StrV("search_news")]))
      [] s = J_search_empty -> Ret(DictV([intent |-> StrV("news_search"), search_query |-> StrV(""),
                                          response |-> StrV("Searching."), action |-> StrV("search_news")]))
      [] s = J_greeting -> Ret(DictV([intent |-> StrV("greeting"),
                                      response |-> StrV("Namaste! I am Akashvani AI."),
                                      action |-> StrV("respond_only")]))
      [] s = J_fetch_nocat -> Ret(DictV([action |-> StrV("fetch_news")]))
      [] s = J_fetch_nullcat -> Ret(DictV([action |-> StrV("fetch_news"), category |-> NoneV]))
      [] s = J_search_noquery -> Ret(DictV([action |-> StrV("search_news")]))
      [] s = J_null_response -> Ret(DictV([intent |-> StrV("help"), response |-> NoneV,
                                           action |-> StrV("respond_only")]))
      [] s = J_empty_object -> Ret(DictV(EmptyDict))
      [] s = J_dance -> Ret(DictV([intent |-> StrV("help"), response |-> StrV("Let us dance."),
                                   action |-> StrV("dance")]))
      [] s = J_string -> Ret(StrV("hello there"))
      [] s = J_number -> Ret(NumV(42))
      [] s = J_array -> Ret(ListV(<<>>))
      [] s = J_null -> Ret(NoneV)
      [] OTHER -> Raise("JSONDecodeError")

\* What client.chat.completions.create does: it raises, or it returns a reply
\* whose message content is a string, or null (a reply without text).
UpRaise == [kind |-> "raise"]
UpContent(c) == [kind |-> "content", content |-> c]
UpNotCalled == [kind |-> "notcalled"]

-----------------------------------------------------------------------------
(* services/ai_service.py *)

SentinelResponse == "I'm sorry, I'm having trouble processing your request right now. Please try again."
IntroductionResponse == "Hello! I'm Akashvani AI, your voice assistant for news updates. Ask me for news from any category like technology, politics, sports, or entertainment!"

HistoryWindow == 5

\* conversation_history[-5:]
LastN(h, n) == IF Len(h) <= n THEN h ELSE SubSeq(h, Len(h) - n + 1, Len(h))

\* The first category, in declaration order, found in the lowercased text
\* (0 when there is none): the for loop of _parse_fallback_response.
RECURSIVE FirstCategoryFrom(_, _)
FirstCategoryFrom(i, user_text_lower) ==
    IF i > Len(NEWS_CATEGORIES) THEN 0
    ELSE IF Contains(NEWS_CATEGORIES[i], user_text_lower)
            \/ Contains(NEWS_CATEGORIES[i] \o " news", user_text_lower)
         THEN i
         ELSE FirstCategoryFrom(i + 1, user_text_lower)

\* Mutant: the generic news keywords are tried before the category names
_parse_fallback_response_GenericFirst(ai_response, user_text) ==
    LET user_text_lower == Lower(user_text)
        k == FirstCategoryFrom(1, user_text_lower)
    IN  IF \E word \in {"news", "headlines", "updates"} : Contains(word, user_text_lower)
        THEN DictV([intent |-> StrV("news_category"),
                    category |-> StrV("general"),
                    response |-> StrV("Let me get the latest news updates for you."),
                    action |-> StrV("fetch_news")])
        ELSE IF k # 0
        THEN DictV([intent |-> StrV("news_category"),
                    category |-> StrV(NEWS_CATEGORIES[k]),
                    response |-> StrV("Let me get the latest " \o NEWS_CATEGORIES[k] \o " news for you."),
                    action |-> StrV("fetch_news")])
        ELSE IF \E word \in {"hello", "hi", "hey", "good morning", "good evening"} :
                    Contains(word, user_text_lower)
        THEN DictV([intent |-> StrV("greeting"),
                    response |-> StrV(IntroductionResponse),
                    action |-> StrV("respond_only")])
        ELSE DictV([intent |-> StrV("general_conversation"),
                    response |-> StrV(ai_response),
                    action |-> StrV("respond_only")])

_parse_fallback_response(ai_response, user_text) ==
    LET user_text_lower == Lower(user_text)
        k == FirstCategoryFrom(1, user_text_lower)
    IN  IF k # 0
        THEN DictV([intent |-> StrV("news_category"),
                    category |-> StrV(NEWS_CATEGORIES[k]),
                    response |-> StrV("Let me get the latest " \o NEWS_CATEGORIES[k] \o " news for you."),
                    action |-> StrV("fetch_news")])
        ELSE IF \E word \in {"news", "headlines", "updates"} : Contains(word, user_text_lower)
        THEN DictV([intent |-> StrV("news_category"),
                    category |-> StrV("general"),
                    response |-> StrV("Let me get the latest news updates for you."),
                    action |-> StrV("fetch_news")])
        ELSE IF \E word \in {"hello", "hi", "hey", "good morning", "good evening"} :
                    Contains(word, user_text_lower)
        THEN DictV([intent |-> StrV("greeting"),
                    response |-> StrV(IntroductionResponse),
                    action |-> StrV("respond_only")])
        ELSE DictV([intent |-> StrV("general_conversation"),
                    response |-> StrV(ai_response),
                    action |-> StrV("respond_only")])

Sentinel ==
    DictV([intent |-> StrV("general_conversation"),
           response |-> StrV(SentinelResponse),
           action |-> StrV("respond_only")])

\* json.loads(ai_response), and the fallback when it raises JSONDecodeError
ParseReply(ai_response, user_text) ==
    LET parsed == json_loads(ai_response)
    IN  IF IsRet(parsed) THEN parsed.ret
        ELSE _parse_fallback_response(ai_response, user_text)

\* Mutant: an upstream failure is answered by the keyword fallback
process_user_input_FallbackOnFailure(h, user_text, up) ==
    LET h1 == Append(h, [role |-> "user", content |-> user_text])
        messages == <<[role |-> "system", content |-> "system_prompt"]>> \o LastN(h1, HistoryWindow)
    IN  IF up.kind = "raise" \/ up.content.t # "str"
        THEN [history |-> h1, messages |-> messages,
              out |-> _parse_fallback_response("", user_text)]
        ELSE LET ai_response == Strip(up.content.s)
                 h2 == Append(h1, [role |-> "assistant", content |-> ai_response])
             IN  [history |-> h2, messages |-> messages,
                  out |-> ParseReply(ai_response, user_text)]

\* Mutant: a failed upstream call takes the user message back
process_user_input_ForgetsOnFailure(h, user_text, up) ==
    LET h1 == Append(h, [role |-> "user", content |-> user_text])
        messages == <<[role |-> "system", content |-> "system_prompt"]>> \o LastN(h1, HistoryWindow)
    IN  IF up.kind = "raise" \/ up.content.t # "str"
        THEN [history |-> h, messages |-> messages, out |-> Sentinel]
        ELSE LET ai_response == Strip(up.content.s)
                 h2 == Append(h1, [role |-> "assistant", content |-> ai_response])
             IN  [history |-> h2, messages |-> messages,
                  out |-> ParseReply(ai_response, user_text)]

\* Mutant: the stored history is cut to the window
process_user_input_TrimsHistory(h, user_text, up) ==
    LET h1 == LastN(Append(h, [role |-> "user", content |-> user_text]), HistoryWindow)
        messages == <<[role |-> "system", content |-> "system_prompt"]>> \o h1
    IN  IF up.kind = "raise" \/ up.content.t # "str"
        THEN [history |-> h1, messages |-> messages, out |-> Sentinel]
        ELSE LET ai_response == Strip(up.content.s)
                 h2 == Append(h1, [role |-> "assistant", content |-> ai_response])
             IN  [history |-> h2, messages |-> messages,
                  out |-> ParseReply(ai_response, user_text)]

\* process_user_input(user_text) on history h, the upstream call ending as up.
\* Gives the new history, the messages sent upstream and the returned value.
process_user_input(h, user_text, up) ==
    LET h1 == Append(h, [role |-> "user", content |-> user_text])
        messages == <<[role |-> "system", content |-> "system_prompt"]>> \o LastN(h1, HistoryWindow)
    IN  IF up.kind = "raise" \/ up.content.t # "str"
        THEN [history |-> h1, messages |-> messages, out |-> Sentinel]
        ELSE LET ai_response == Strip(up.content.s)
                 h2 == Append(h1, [role |-> "assistant", content |-> ai_response])
             IN  [history |-> h2, messages |-> messages,
                  out |-> ParseReply(ai_response, user_text)]

\* clear_conversation_history()
clear_conversation_history(h) == <<>>

\* get_conversation_summary()
get_conversation_summary(h) ==
    IF Len(h) = 0
    THEN StrV("No conversation history available.")
    ELSE StrV("Conversation has " \o ToString(Len(h)) \o " messages.")

-----------------------------------------------------------------------------
(* services/news_service.py *)

CategorySet == {NEWS_CATEGORIES[i] : i \in 1..Len(NEWS_CATEGORIES)}

\* What requests.get(...), raise_for_status() and response.json() do for one
\* request: one of them raises, or the provider's JSON document is returned.
ProviderRaise == [kind |-> "raise"]
ProviderData(d) == [kind |-> "data", data |-> d]

\* The formatted_article built from one raw article of the provider
FormattedArticle(i, article) ==
    DictV([number |-> NumV(i),
           title |-> DictGet(article.d, "title", StrV("")),
           description |-> DictGet(article.d, "description", StrV("")),
           source |-> DictGet(DictGet(article.d, "source", DictV(EmptyDict)).d, "name", StrV("")),
           url |-> DictGet(article.d, "url", StrV("")),
           publishedAt |-> DictGet(article.d, "publishedAt", StrV(""))])

\* article.get(...) and article.get("source", {}).get(...) raise AttributeError
\* when the article, or its source, is not an object.
ArticleRaises(article) ==
    \/ article.t # "dict"
    \/ DictGet(article.d, "source", DictV(EmptyDict)).t # "dict"

\* articles[:limit]
Take(items, limit) == IF Len(items) <= limit THEN items ELSE SubSeq(items, 1, limit)

\* The body shared by get_top_headlines and search_news once the request is
\* sent: every exception is caught and turned into the empty list.
NormalizeReply(outcome, limit) ==
    IF outcome.kind = "raise" THEN ListV(<<>>)
    ELSE IF outcome.data.t # "dict" THEN ListV(<<>>)
    ELSE LET articles == DictGet(outcome.data.d, "articles", ListV(<<>>))
         IN  IF articles.t # "list" THEN ListV(<<>>)
             ELSE LET batch == Take(articles.items, limit)
                  IN  IF \E i \in 1..Len(batch) : ArticleRaises(batch[i])
                      THEN ListV(<<>>)
                      ELSE ListV([i \in 1..Len(batch) |-> FormattedArticle(i, batch[i])])

\* The provider's answer to a top-headlines request for a category
HeadlinesOutcome(world, category) ==
    IF category.t = "str" /\ category.s \in CategorySet
    THEN world.byCat[category.s]
    ELSE world.other

get_top_headlines(world, category, limit) ==
    NormalizeReply(HeadlinesOutcome(world, category), limit)

search_news(world, query, limit) ==
    NormalizeReply(world.search, limit)

\* A dict whose insertion order matters to the code that iterates it: keys
\* holds the keys in the order they were inserted.
OrderedDictV(keys, d) == [t |-> "dict", d |-> d, keys |-> keys]

\* Mutant: the first category that comes back empty ends the loop
RECURSIVE FetchedUntilEmpty(_, _, _)
FetchedUntilEmpty(i, world, limit) ==
    IF i > Len(NEWS_CATEGORIES) THEN <<>>
    ELSE IF ~Truthy(get_top_headlines(world, StrV(NEWS_CATEGORIES[i]), limit)) THEN <<>>
    ELSE <<NEWS_CATEGORIES[i]>> \o FetchedUntilEmpty(i + 1, world, limit)

get_all_categories_news_Aborts(world, limit_per_category) ==
    OrderedDictV(FetchedUntilEmpty(1, world, limit_per_category),
                 [c \in {FetchedUntilEmpty(1, world, limit_per_category)[i] :
                            i \in 1..Len(FetchedUntilEmpty(1, world, limit_per_category))} |->
                     get_top_headlines(world, StrV(c), limit_per_category)])

\* Mutant: the limit is not handed on, get_top_headlines runs with its default
get_all_categories_news_DefaultLimit(world, limit_per_category) ==
    OrderedDictV(NEWS_CATEGORIES,
                 [c \in CategorySet |-> get_top_headlines(world, StrV(c), 5)])

\* get_all_categories_news: one get_top_headlines per category, inserted in
\* the order of Config.NEWS_CATEGORIES.  get_top_headlines raises nothing, so
\* the except clause of the loop never runs.
get_all_categories_news(world, limit_per_category) ==
    OrderedDictV(NEWS_CATEGORIES,
                 [c \in CategorySet |-> get_top_headlines(world, StrV(c), limit_per_category)])

-----------------------------------------------------------------------------
(* services/speech_service.py *)

SummaryWords == 25

\* description.split(): the maximal runs of non-space characters
RECURSIVE SplitFrom(_, _, _)
SplitFrom(s, i, word) ==
    IF i > Len(s) THEN (IF word = "" THEN <<>> ELSE <<word>>)
    ELSE IF IsSpace(SubSeq(s, i, i))
         THEN (IF word = "" THEN <<>> ELSE <<word>>) \o SplitFrom(s, i + 1, "")
         ELSE SplitFrom(s, i + 1, word \o SubSeq(s, i, i))

Split(s) == SplitFrom(s, 1, "")

\* The summary of a description: its first 25 words, "..." appended when the
\* slice holds 25 words.
Summary(description) ==
    LET desc_words == Take(Split(description), SummaryWords)
        summary == JoinStr(" ", desc_words)
    IN  IF Len(desc_words) = SummaryWords THEN summary \o "..." ELSE summary

HasSummary(article) ==
    LET title == DictGet(article.d, "title", StrV(""))
        description == DictGet(article.d, "description", StrV(""))
    IN  Truthy(description) /\ description # title

\* One pass of the loop of format_news_for_speech
HeadlineText(i, article) ==
    LET title == DictGet(article.d, "title", StrV(""))
        description == DictGet(article.d, "description", StrV(""))
    IN  "Headline " \o ToString(i) \o ": " \o Str(title) \o ". "
        \o (IF HasSummary(article) THEN Summary(description.s) \o " " ELSE "")
        \o "\n\n"

RECURSIVE HeadlinesFrom(_, _)
HeadlinesFrom(i, items) ==
    IF i > Len(items) THEN "" ELSE HeadlineText(i, items[i]) \o HeadlinesFrom(i + 1, items)

\* Mutant: the header is written before the batch is looked at
format_news_for_speech_HeaderFirst(articles, category) ==
    IF ~Truthy(articles)
    THEN Ret("Here are the top " \o Str(category) \o " news headlines:\n\n"
             \o "Sorry, I couldn't fetch any news for " \o Str(category) \o " at the moment.")
    ELSE IF \E i \in 1..Len(articles.items) :
                /\ HasSummary(articles.items[i])
                /\ DictGet(articles.items[i].d, "description", StrV("")).t # "str"
         THEN Raise("AttributeError")
         ELSE Ret("Here are the top " \o Str(category) \o " news headlines:\n\n"
                  \o HeadlinesFrom(1, articles.items))

\* format_news_for_speech(articles, category): the text, or AttributeError when
\* a description that is to be summarised is not a string (it has no split).
format_news_for_speech(articles, category) ==
    IF ~Truthy(articles)
    THEN Ret("Sorry, I couldn't fetch any news for " \o Str(category) \o " at the moment.")
    ELSE IF \E i \in 1..Len(articles.items) :
                /\ HasSummary(articles.items[i])
                /\ DictGet(articles.items[i].d, "description", StrV("")).t # "str"
         THEN Raise("AttributeError")
         ELSE Ret("Here are the top " \o Str(category) \o " news headlines:\n\n"
                  \o HeadlinesFrom(1, articles.items))

\* What the speech provider does for one synthesis request: the call raises,
\* the response carries no stream, or it carries a stream with these bytes.
SynthRaise == [kind |-> "raise"]
SynthNoStream == [kind |-> "nostream"]
SynthStream(b) == [kind |-> "stream", bytes |-> b]

\* text[:50] in the log line raises TypeError unless text can be sliced
Sliceable(text) == text.t \in {"str", "list", "bytes"}

\* synthesize_speech(text, voice_type): the audio bytes, or None
synthesize_speech(text, voice_type, outcome) ==
    IF outcome.kind = "stream" /\ Sliceable(text) THEN BytesV(outcome.bytes) ELSE NoneV

\* self.voices.get(voice_type, self.voices["female"])
selected_voice(voice_type) ==
    IF voice_type = "male" THEN "aura-orion-en" ELSE "aura-asteria-en"

\* What the speech provider does for one transcription request: the call
\* raises, the response has no results, or it holds this transcript.
TranscribeRaise == [kind |-> "raise"]
TranscribeNoResults == [kind |-> "noresults"]
Transcript(s) == [kind |-> "transcript", transcript |-> s]

\* transcribe_audio(audio_data): the transcript, or None
transcribe_audio(outcome) ==
    IF outcome.kind = "transcript" THEN StrV(outcome.transcript) ELSE NoneV

-----------------------------------------------------------------------------
(* services/conversation_handler.py *)

ClarificationResponse == "I'm sorry, I couldn't understand what you said. Could you please try again?"
TechnicalDifficultiesResponse == "I'm experiencing some technical difficulties. Please try again in a moment."
TextErrorResponse == "I'm sorry, I encountered an error processing your request."
IntentErrorResponse == "I'm sorry, I encountered an issue while processing your request. Please try again."
GenericResponse == "I'm here to help you with news updates!"
NeedTopicResponse == "I need a specific topic to search for. What news would you like me to find?"
DigestPrompt == "Which category would you like me to read in detail?"

GeneralLimit == 3
CategoryLimit == 5

\* One call of a collaborator: what was called, with what, and what it returned
Call(fn, arg, ret) == [fn |-> fn, arg |-> arg, ret |-> ret]

\* SpeechService.get_available_voices(): a plain method, it returns the dict
get_available_voices ==
    DictV([female |-> DictV([name |-> StrV("Asteria"),
                             description |-> StrV("Professional female voice"),
                             model |-> StrV("aura-asteria-en")]),
           male |-> DictV([name |-> StrV("Orion"),
                           description |-> StrV("Professional male voice"),
                           model |-> StrV("aura-orion-en")])])

\* await v: the result of a coroutine (what calling an "async def" gives);
\* TypeError ("object dict can't be used in 'await' expression") for a value
\* that is not awaitable
Await(v) == IF v.t = "coroutine" THEN Ret(v.result) ELSE Raise("TypeError")

\* ConversationHandler.__init__
InitialSession == [voice_preference |-> StrV("female")]

\* _format_general_news_update(all_news): one line per category that has an
\* article, in the order of the dict (the declaration order of the categories)
RECURSIVE DigestFrom(_, _)
DigestFrom(i, all_news) ==
    IF i > Len(all_news.keys) THEN ""
    ELSE LET category == all_news.keys[i]
             articles == all_news.d[category]
         IN  (IF Truthy(articles)
              THEN "Top " \o category \o " headline: "
                   \o Str(DictGet(articles.items[1].d, "title", StrV("No title available")))
                   \o ".\n\n"
              ELSE "")
             \o DigestFrom(i + 1, all_news)

_format_general_news_update(all_news) ==
    "Here's your news briefing from Akashvani AI.\n\n" \o DigestFrom(1, all_news) \o DigestPrompt

\* Mutant: a named fetch that came back empty leaves the session as it was
_handle_news_request_StoresOnlyArticles(session, world, ai_response) ==
    LET category == DictGet(ai_response.d, "category", StrV("general"))
    IN  IF category = StrV("general")
        THEN LET all_news == get_all_categories_news(world, GeneralLimit)
             IN  [session |-> DictUpdate(session, [last_category |-> category,
                                                   last_news_data |-> all_news,
                                                   last_action |-> StrV("news_fetch")]),
                  calls |-> [i \in 1..Len(all_news.keys) |->
                                Call("get_top_headlines", StrV(all_news.keys[i]),
                                     all_news.d[all_news.keys[i]])],
                  out |-> Ret(StrV(_format_general_news_update(all_news)))]
        ELSE LET news_articles == get_top_headlines(world, category, CategoryLimit)
                 response ==
                     IF Truthy(news_articles)
                     THEN format_news_for_speech(news_articles, category)
                     ELSE Ret("I'm sorry, I couldn't fetch " \o Str(category)
                              \o " news at the moment. Would you like news from another category?")
             IN  IF IsRaise(response)
                 THEN [session |-> session,
                       calls |-> <<Call("get_top_headlines", category, news_articles)>>,
                       out |-> response]
                 ELSE [session |-> IF Truthy(news_articles)
                                   THEN DictUpdate(session, [last_category |-> category,
                                                             last_news_data |-> news_articles,
                                                             last_action |-> StrV("news_fetch")])
                                   ELSE session,
                       calls |-> <<Call("get_top_headlines", category, news_articles)>>,
                       out |-> Ret(StrV(response.ret))]

\* _handle_news_request(ai_response): the session it leaves, the news calls it
\* makes, and the response text it returns or the exception it raises
_handle_news_request(session, world, ai_response) ==
    LET category == DictGet(ai_response.d, "category", StrV("general"))
    IN  IF category = StrV("general")
        THEN LET all_news == get_all_categories_news(world, GeneralLimit)
             IN  [session |-> DictUpdate(session, [last_category |-> category,
                                                   last_news_data |-> all_news,
                                                   last_action |-> StrV("news_fetch")]),
                  calls |-> [i \in 1..Len(all_news.keys) |->
                                Call("get_top_headlines", StrV(all_news.keys[i]),
                                     all_news.d[all_news.keys[i]])],
                  out |-> Ret(StrV(_format_general_news_update(all_news)))]
        ELSE LET news_articles == get_top_headlines(world, category, CategoryLimit)
                 response ==
                     IF Truthy(news_articles)
                     THEN format_news_for_speech(news_articles, category)
                     ELSE Ret("I'm sorry, I couldn't fetch " \o Str(category)
                              \o " news at the moment. Would you like news from another category?")
             IN  IF IsRaise(response)
                 THEN [session |-> session,
                       calls |-> <<Call("get_top_headlines", category, news_articles)>>,
                       out |-> response]
                 ELSE [session |-> DictUpdate(session, [last_category |-> category,
                                                        last_news_data |-> news_articles,
                                                        last_action |-> StrV("news_fetch")]),
                       calls |-> <<Call("get_top_headlines", category, news_articles)>>,
                       out |-> Ret(StrV(response.ret))]

\* Mutant: the session is written before the empty query is turned away
_handle_news_search_StoresEmptyQuery(session, world, ai_response) ==
    LET search_query == DictGet(ai_response.d, "search_query", StrV(""))
    IN  IF ~Truthy(search_query)
        THEN [session |-> DictUpdate(session, [last_search |-> search_query,
                                               last_news_data |-> ListV(<<>>),
                                               last_action |-> StrV("news_search")]),
              calls |-> <<>>, out |-> Ret(StrV(NeedTopicResponse))]
        ELSE LET search_results == search_news(world, search_query, CategoryLimit)
                 response ==
                     IF Truthy(search_results)
                     THEN format_news_for_speech(search_results,
                                                 StrV("search results for " \o Str(search_query)))
                     ELSE Ret("I couldn't find any recent news about '" \o Str(search_query)
                              \o "'. Would you like me to search for something else?")
             IN  IF IsRaise(response)
                 THEN [session |-> session,
                       calls |-> <<Call("search_news", search_query, search_results)>>,
                       out |-> response]
                 ELSE [session |-> DictUpdate(session, [last_search |-> search_query,
                                                        last_news_data |-> search_results,
                                                        last_action |-> StrV("news_search")]),
                       calls |-> <<Call("search_news", search_query, search_results)>>,
                       out |-> Ret(StrV(response.ret))]

\* Mutant: only a null query is turned away ("is None" for "not search_query")
_handle_news_search_SearchesEmptyQuery(session, world, ai_response) ==
    LET search_query == DictGet(ai_response.d, "search_query", StrV(""))
    IN  IF search_query = NoneV
        THEN [session |-> session, calls |-> <<>>, out |-> Ret(StrV(NeedTopicResponse))]
        ELSE LET search_results == search_news(world, search_query, CategoryLimit)
                 response ==
                     IF Truthy(search_results)
                     THEN format_news_for_speech(search_results,
                                                 StrV("search results for " \o Str(search_query)))
                     ELSE Ret("I couldn't find any recent news about '" \o Str(search_query)
                              \o "'. Would you like me to search for something else?")
             IN  IF IsRaise(response)
                 THEN [session |-> session,
                       calls |-> <<Call("search_news", search_query, search_results)>>,
                       out |-> response]
                 ELSE [session |-> DictUpdate(session, [last_search |-> search_query,
                                                        last_news_data |-> search_results,
                                                        last_action |-> StrV("news_search")]),
                       calls |-> <<Call("search_news", search_query, search_results)>>,
                       out |-> Ret(StrV(response.ret))]

\* Mutant: last_action is set only when the session holds none
_handle_news_search_KeepsLastAction(session, world, ai_response) ==
    LET search_query == DictGet(ai_response.d, "search_query", StrV(""))
    IN  IF ~Truthy(search_query)
        THEN [session |-> session, calls |-> <<>>, out |-> Ret(StrV(NeedTopicResponse))]
        ELSE LET search_results == search_news(world, search_query, CategoryLimit)
                 response ==
                     IF Truthy(search_results)
                     THEN format_news_for_speech(search_results,
                                                 StrV("search results for " \o Str(search_query)))
                     ELSE Ret("I couldn't find any recent news about '" \o Str(search_query)
                              \o "'. Would you like me to search for something else?")
             IN  IF IsRaise(response)
                 THEN [session |-> session,
                       calls |-> <<Call("search_news", search_query, search_results)>>,
                       out |-> response]
                 ELSE [session |-> DictUpdate(session, [last_search |-> search_query,
                                                        last_news_data |-> search_results,
                                                        last_action |-> DictGet(session, "last_action",
                                                                               StrV("news_search"))]),
                       calls |-> <<Call("search_news", search_query, search_results)>>,
                       out |-> Ret(StrV(response.ret))]

\* _handle_news_search(ai_response)
_handle_news_search(session, world, ai_response) ==
    LET search_query == DictGet(ai_response.d, "search_query", StrV(""))
    IN  IF ~Truthy(search_query)
        THEN [session |-> session, calls |-> <<>>, out |-> Ret(StrV(NeedTopicResponse))]
        ELSE LET search_results == search_news(world, search_query, CategoryLimit)
                 response ==
                     IF Truthy(search_results)
                     THEN format_news_for_speech(search_results,
                                                 StrV("search results for " \o Str(search_query)))
                     ELSE Ret("I couldn't find any recent news about '" \o Str(search_query)
                              \o "'. Would you like me to search for something else?")
             IN  IF IsRaise(response)
                 THEN [session |-> session,
                       calls |-> <<Call("search_news", search_query, search_results)>>,
                       out |-> response]
                 ELSE [session |-> DictUpdate(session, [last_search |-> search_query,
                                                        last_news_data |-> search_results,
                                                        last_action |-> StrV("news_search")]),
                       calls |-> <<Call("search_news", search_query, search_results)>>,
                       out |-> Ret(StrV(response.ret))]

\* The branch _handle_intent takes for a classifier result
Branch(ai_response) ==
    IF ai_response.t # "dict" THEN "raise"
    ELSE LET action == DictGet(ai_response.d, "action", StrV("respond_only"))
         IN  IF action = StrV("fetch_news") THEN "fetch_news"
             ELSE IF action = StrV("search_news") THEN "search_news"
             ELSE "respond_only"

\* The try block of _handle_intent around a branch that returned r: an
\* exception of the branch is caught and answered with the fixed text.
Caught(r) ==
    IF IsRaise(r.out) THEN [r EXCEPT !.out = Ret(StrV(IntentErrorResponse))] ELSE r

\* Mutant: only the action "respond_only" itself echoes the draft; any other
\* unrecognised action (or none) gets the generic text
_handle_intent_DraftOnlyForRespondOnly(session, world, ai_response) ==
    CASE Branch(ai_response) = "raise" ->
             [session |-> session, calls |-> <<>>, out |-> Raise("AttributeError")]
      [] Branch(ai_response) = "respond_only" ->
             [session |-> session, calls |-> <<>>,
              out |-> Ret(IF DictGet(ai_response.d, "action", NoneV) = StrV("respond_only")
                          THEN DictGet(ai_response.d, "response", StrV(GenericResponse))
                          ELSE StrV(GenericResponse))]
      [] Branch(ai_response) = "fetch_news" ->
             Caught(_handle_news_request(session, world, ai_response))
      [] Branch(ai_response) = "search_news" ->
             Caught(_handle_news_search(session, world, ai_response))

\* _handle_intent(ai_response): ai_response.get raises AttributeError, outside
\* the try, when the classifier's result is not a dict.
_handle_intent(session, world, ai_response) ==
    CASE Branch(ai_response) = "raise" ->
             [session |-> session, calls |-> <<>>, out |-> Raise("AttributeError")]
      [] Branch(ai_response) = "respond_only" ->
             [session |-> session, calls |-> <<>>,
              out |-> Ret(DictGet(ai_response.d, "response", StrV(GenericResponse)))]
      [] Branch(ai_response) = "fetch_news" ->
             Caught(_handle_news_request(session, world, ai_response))
      [] Branch(ai_response) = "search_news" ->
             Caught(_handle_news_search(session, world, ai_response))

\* Mutant: a turn whose synthesis gave no audio ends in the except clause
PipelineSynthesize_NoAudioIsError(p, i, world, text, voice_type, on_error) ==
    IF IsRaise(i.out) \/ synthesize_speech(i.out.ret, voice_type, world.synth) = NoneV
    THEN [session |-> i.session, history |-> p.history, messages |-> p.messages,
          ai_response |-> p.out,
          calls |-> <<Call("process_user_input", StrV(text), p.out)>>
                    \o i.calls \o on_error.calls,
          ret |-> on_error.ret]
    ELSE [session |-> i.session, history |-> p.history, messages |-> p.messages,
          ai_response |-> p.out,
          calls |-> <<Call("process_user_input", StrV(text), p.out)>> \o i.calls
                    \o <<Call("synthesize_speech", i.out.ret,
                              synthesize_speech(i.out.ret, voice_type, world.synth))>>,
          ret |-> [text |-> i.out.ret,
                   audio |-> synthesize_speech(i.out.ret, voice_type, world.synth)]]

\* Mutant: a synthesis that gave no audio is tried a second time
PipelineSynthesize_RetriesSynthesis(p, i, world, text, voice_type, on_error) ==
    IF IsRaise(i.out)
    THEN [session |-> i.session, history |-> p.history, messages |-> p.messages,
          ai_response |-> p.out,
          calls |-> <<Call("process_user_input", StrV(text), p.out)>>
                    \o i.calls \o on_error.calls,
          ret |-> on_error.ret]
    ELSE [session |-> i.session, history |-> p.history, messages |-> p.messages,
          ai_response |-> p.out,
          calls |-> <<Call("process_user_input", StrV(text), p.out)>> \o i.calls
                    \o <<Call("synthesize_speech", i.out.ret,
                              synthesize_speech(i.out.ret, voice_type, world.synth))>>
                    \o (IF synthesize_speech(i.out.ret, voice_type, world.synth) = NoneV
                        THEN <<Call("synthesize_speech", i.out.ret,
                                    synthesize_speech(i.out.ret, voice_type, world.synth))>>
                        ELSE <<>>),
          ret |-> [text |-> i.out.ret,
                   audio |-> synthesize_speech(i.out.ret, voice_type, world.synth)]]

\* The part handle_text_input and handle_voice_input share: classify, handle
\* the intent, synthesize.  on_error is what the caller's except clause does.
\* Synthesize: p is what process_user_input gave, i what _handle_intent gave.
PipelineSynthesize(p, i, world, text, voice_type, on_error) ==
    IF IsRaise(i.out)
    THEN [session |-> i.session, history |-> p.history, messages |-> p.messages,
          ai_response |-> p.out,
          calls |-> <<Call("process_user_input", StrV(text), p.out)>>
                    \o i.calls \o on_error.calls,
          ret |-> on_error.ret]
    ELSE [session |-> i.session, history |-> p.history, messages |-> p.messages,
          ai_response |-> p.out,
          calls |-> <<Call("process_user_input", StrV(text), p.out)>> \o i.calls
                    \o <<Call("synthesize_speech", i.out.ret,
                              synthesize_speech(i.out.ret, voice_type, world.synth))>>,
          ret |-> [text |-> i.out.ret,
                   audio |-> synthesize_speech(i.out.ret, voice_type, world.synth)]]

\* Handle the intent of the classifier's result p.out
PipelineIntent(p, session, world, text, voice_type, on_error) ==
    PipelineSynthesize(p, _handle_intent(session, world, p.out),
                       world, text, voice_type, on_error)

Pipeline(session, history, world, text, voice_type, on_error) ==
    PipelineIntent(process_user_input(history, text, world.up),
                   session, world, text, voice_type, on_error)

\* The except clause of handle_text_input: the fixed text, no audio
TextOnError ==
    [calls |-> <<>>, ret |-> [text |-> StrV(TextErrorResponse), audio |-> NoneV]]

\* The except clause of handle_voice_input: the fixed text, synthesized
VoiceOnError(world, voice_type) ==
    LET audio == synthesize_speech(StrV(TechnicalDifficultiesResponse), voice_type, world.synth)
    IN  [calls |-> <<Call("synthesize_speech", StrV(TechnicalDifficultiesResponse), audio)>>,
         ret |-> [text |-> StrV(TechnicalDifficultiesResponse), audio |-> audio]]

\* Mutant: handle_text_input with the except clause of handle_voice_input
handle_text_input_VoiceExcept(session, history, world, text_input, voice_type) ==
    Pipeline(session, history, world, text_input, voice_type,
             VoiceOnError(world, voice_type))

\* handle_text_input(text_input, voice_type)
handle_text_input(session, history, world, text_input, voice_type) ==
    Pipeline(session, history, world, text_input, voice_type, TextOnError)

\* Mutant: the clarification is returned without synthesizing it
handle_voice_input_SilentClarification(session, history, world, voice_type) ==
    LET transcript == transcribe_audio(world.transcribe)
        transcribe == <<Call("transcribe_audio", NoneV, transcript)>>
    IN  IF ~Truthy(transcript)
        THEN [session |-> session, history |-> history, messages |-> <<>>,
              ai_response |-> NoneV,
              calls |-> transcribe,
              ret |-> [text |-> StrV(ClarificationResponse), audio |-> NoneV]]
        ELSE LET r == Pipeline(session, history, world, transcript.s, voice_type,
                               VoiceOnError(world, voice_type))
             IN  [r EXCEPT !.calls = transcribe \o @]

\* handle_voice_input(audio_data, voice_type)
handle_voice_input(session, history, world, voice_type) ==
    LET transcript == transcribe_audio(world.transcribe)
        transcribe == <<Call("transcribe_audio", NoneV, transcript)>>
    IN  IF ~Truthy(transcript)
        THEN LET audio == synthesize_speech(StrV(ClarificationResponse), voice_type, world.synth)
             IN  [session |-> session, history |-> history, messages |-> <<>>,
                  ai_response |-> NoneV,
                  calls |-> transcribe
                            \o <<Call("synthesize_speech", StrV(ClarificationResponse), audio)>>,
                  ret |-> [text |-> StrV(ClarificationResponse), audio |-> audio]]
        ELSE LET r == Pipeline(session, history, world, transcript.s, voice_type,
                               VoiceOnError(world, voice_type))
             IN  [r EXCEPT !.calls = transcribe \o @]

\* Mutant: the classifier's history is not cleared
clear_session_KeepsHistory(session, history) ==
    [session |-> EmptyDict, history |-> history]

\* clear_session()
clear_session(session, history) ==
    [session |-> EmptyDict, history |-> clear_conversation_history(history)]

\* get_session_info(): the dict display is evaluated entry by entry; the last
\* entry awaits what get_available_voices returned.
get_session_info(session, history) ==
    LET session_data == DictV(session)
        conversation_summary == get_conversation_summary(history)
        available_voices == Await(get_available_voices)
    IN  IF IsRaise(available_voices)
        THEN available_voices
        ELSE Ret(DictV([session_data |-> session_data,
                        conversation_summary |-> conversation_summary,
                        available_voices |-> available_voices.ret]))

NoArticleResponse == "I don't have that article number. Please ask for a valid article number from the recent news."

\* len(last_news_data): of a list its items, of a dict its keys
PyLen(v) == IF v.t = "list" THEN Len(v.items) ELSE Cardinality(DOMAIN v.d)

\* get_detailed_article(article_number): last_news_data[article_number - 1]
\* indexes a list; on the dict a general fetch stored, whose keys are the
\* category names, it raises KeyError.
get_detailed_article(session, article_number) ==
    LET last_news_data == DictGet(session, "last_news_data", ListV(<<>>))
    IN  IF ~Truthy(last_news_data) \/ article_number < 1
           \/ article_number > PyLen(last_news_data)
        THEN Ret(NoArticleResponse)
        ELSE IF last_news_data.t = "dict"
        THEN Raise("KeyError")
        ELSE LET article == last_news_data.items[article_number]
             IN  Ret("Here's more detail about article " \o ToString(article_number) \o ": "
                     \o Str(DictGet(article.d, "title", StrV("No title"))) \o ". "
                     \o Str(DictGet(article.d, "description", StrV("No description available")))
                     \o " This story is from "
                     \o Str(DictGet(article.d, "source", StrV("Unknown source"))) \o ".")

\* Mutant: the whole normalized article is handed on
get_headlines_only_WholeArticle(world, category) ==
    get_top_headlines(world, StrV(category), CategoryLimit)

\* get_headlines_only(category): title, source and publishedAt of the top
\* headlines.  get_top_headlines returns a list of dicts, so nothing raises.
get_headlines_only(world, category) ==
    LET news_articles == get_top_headlines(world, StrV(category), CategoryLimit).items
    IN  ListV([i \in 1..Len(news_articles) |->
                 DictV([title |-> DictGet(news_articles[i].d, "title", StrV("")),
                        source |-> DictGet(news_articles[i].d, "source", StrV("")),
                        publishedAt |-> DictGet(news_articles[i].d, "publishedAt", StrV(""))])])

-----------------------------------------------------------------------------
(* main.py: the HTTP endpoints and the audio blob registry *)

HTTPException(status_code, detail) == [status |-> status_code, detail |-> detail]

\* str(uuid.uuid4()): the n-th identifier generated by the process
AudioId(n) == "audio-" \o ToString(n)

\* for category in Config.NEWS_CATEGORIES: if category in s: ...; break
RECURSIVE FirstCategoryIn(_, _)
FirstCategoryIn(i, s) ==
    IF i > Len(NEWS_CATEGORIES) THEN 0
    ELSE IF Contains(NEWS_CATEGORIES[i], s) THEN i
    ELSE FirstCategoryIn(i + 1, s)

\* The endpoint looks headlines up: the response text mentions a headline or
\* news, and a category occurs in the searched text.
HeadlinesCategory(text_response, searched) ==
    LET lowered == Lower(text_response)
    IN  IF Contains("headline", lowered) \/ Contains("news", lowered)
        THEN FirstCategoryIn(1, Lower(searched))
        ELSE 0

\* What both endpoints do once the orchestrator has returned r: searched is
\* the text whose categories are looked for, world the news provider at the
\* time of the headlines request, audio_id the identifier generated if the
\* audio is stored.  text_response.lower() raises when the text is no string.
Respond(r, world, searched, audio_id, detail) ==
    IF r.ret.text.t # "str" \/ searched.t # "str"
    THEN [response |-> HTTPException(500, detail), store |-> FALSE]
    ELSE LET k == HeadlinesCategory(r.ret.text.s, searched.s)
         IN  [response |->
                  [status |-> 200,
                   text_response |-> r.ret.text,
                   audio_available |-> r.ret.audio # NoneV,
                   audio_url |-> IF Truthy(r.ret.audio)
                                 THEN StrV("/api/audio/" \o audio_id) ELSE NoneV,
                   headlines_only |-> IF k = 0 THEN NoneV
                                      ELSE get_headlines_only(world, NEWS_CATEGORIES[k])],
              store |-> Truthy(r.ret.audio)]

\* POST /api/text
api_text(r, world, request_text, audio_id) ==
    Respond(r, world, StrV(request_text), audio_id, "Error processing text input")

\* POST /api/voice
api_voice(r, world, audio_id) ==
    Respond(r, world, r.ret.text, audio_id, "Error processing voice input")

\* Mutant: the entry is served and kept
serve_audio_KeepsEntry(storage, audio_id) ==
    IF audio_id \in DOMAIN storage
    THEN [storage |-> storage,
          response |-> [status |-> 200, content |-> storage[audio_id],
                        media_type |-> "audio/wav"]]
    ELSE [storage |-> storage,
          response |-> HTTPException(500, "Error serving audio")]

\* GET /api/audio/{audio_id}.  The handler has no await, so on the event loop
\* it runs from the membership test to the response without another request
\* in between.  The HTTPException(404) is raised inside the try
\* block, whose "except Exception" catches it and raises the 500 instead.
serve_audio(storage, audio_id) ==
    IF audio_id \in DOMAIN storage
    THEN [storage |-> [k \in DOMAIN storage \ {audio_id} |-> storage[k]],
          response |-> [status |-> 200, content |-> storage[audio_id],
                        media_type |-> "audio/wav"]]
    ELSE [storage |-> storage,
          response |-> HTTPException(500, "Error serving audio")]

\* GET /api/session: an exception of get_session_info becomes the 500
api_session(session, history) ==
    LET session_info == get_session_info(session, history)
    IN  IF IsRaise(session_info)
        THEN HTTPException(500, "Error retrieving session information")
        ELSE [status |-> 200, content |-> session_info.ret]

-----------------------------------------------------------------------------
(* Inputs: what the callers send and what the providers answer *)

T_padded == "  " \o T_prose \o "\n"

ReplyTexts ==
    {J_sports, J_general, J_search, J_search_empty, J_greeting, J_fetch_nocat,
     J_fetch_nullcat, J_search_noquery, J_null_response, J_empty_object, J_dance,
     J_string, J_number, J_array, J_null, T_prose, T_truncated, T_padded}

RawArticle(title, description) ==
    DictV([title |-> StrV(title), description |-> description,
           source |-> DictV([id |-> NoneV, name |-> StrV("Wire")]),
           url |-> StrV("https://example.org/" \o title),
           publishedAt |-> StrV("2024-01-01T00:00:00Z")])

RA_first == RawArticle("Rocket lands", StrV("The booster returned to the pad."))
RA_second == RawArticle("Cup final", NoneV)
RA_bare == DictV(EmptyDict)
RA_numdesc == RawArticle("Odd feed", NumV(7))

Batch(items) == ProviderData(DictV([status |-> StrV("ok"), articles |-> ListV(items)]))

\* A reply holding more articles than either limit the handler asks for
LongBatch == Batch([i \in 1..(CategoryLimit + 1) |-> RA_first])

\* The news provider during one turn: its answer per category, to any other
\* top-headlines request, and to a search.
Uniform(o) == [byCat |-> [c \in CategorySet |-> o], other |-> o, search |-> o]

\* An input profile names the sets a specification draws its inputs from.
\* Wide: every reply shape and provider outcome, for single turns.
Wide ==
    [texts |-> {"Sports NEWS please", "Hello"},
     voices |-> {"male", "robot"},
     upstreams |-> {UpRaise, UpContent(NoneV)} \cup {UpContent(StrV(r)) : r \in ReplyTexts},
     news |-> {Uniform(ProviderRaise),
               Uniform(Batch(<<>>)),
               Uniform(Batch(<<RA_first>>)),
               Uniform(Batch(<<RA_second, RA_bare>>)),
               Uniform(Batch(<<RA_numdesc>>)),
               Uniform(LongBatch),
               Uniform(ProviderData(DictV([status |-> StrV("error")]))),
               [Uniform(Batch(<<RA_first>>)) EXCEPT !.byCat["sports"] = ProviderRaise],
               [Uniform(Batch(<<>>)) EXCEPT !.byCat["health"] = Batch(<<RA_second, RA_bare>>)]},
     synths |-> {SynthRaise, SynthNoStream, SynthStream(""), SynthStream("RIFF")},
     transcripts |-> {TranscribeRaise, TranscribeNoResults, Transcript(""),
                      Transcript("Sports NEWS please"), Transcript("Hello")}]

\* Narrow: one representative of each branch, for sequences of turns.
Narrow ==
    [texts |-> {"Sports NEWS please", "Hello"},
     voices |-> {"female"},
     upstreams |-> {UpRaise} \cup {UpContent(StrV(r)) :
                       r \in {J_sports, J_general, J_search, J_search_empty, J_greeting,
                              J_array, T_prose}},
     news |-> {Uniform(ProviderRaise),
               Uniform(Batch(<<RA_first>>)),
               Uniform(Batch(<<RA_numdesc>>))},
     synths |-> {SynthRaise, SynthStream("RIFF")},
     transcripts |-> {TranscribeNoResults, Transcript(""), Transcript("Hello")}]

\* The news worlds that can make a difference to a turn whose classifier
\* result is ai_response: one is enough when no news request is made.
NewsWorldsFor(I, ai_response) ==
    IF Branch(ai_response) \in {"fetch_news", "search_news"}
    THEN I.news
    ELSE {Uniform(ProviderRaise)}

World(up, news, synth, transcribe) ==
    [up |-> up, byCat |-> news.byCat, other |-> news.other, search |-> news.search,
     synth |-> synth, transcribe |-> transcribe]

\* Http: the requests of a browser session, for the endpoints.
Http ==
    [texts |-> {"Sports NEWS please"},
     voices |-> {"female"},
     upstreams |-> {UpRaise, UpContent(StrV(J_sports)), UpContent(StrV(J_null_response))},
     news |-> {Uniform(ProviderRaise), Uniform(Batch(<<RA_first>>))},
     synths |-> {SynthRaise, SynthStream(""), SynthStream("RIFF")},
     transcripts |-> {TranscribeNoResults, Transcript("Sports NEWS please")}]

\* The categories and provider outcomes of the headline queries
QueryCategories == {"technology", "weather"}

QueryNews ==
    {Uniform(ProviderRaise), Uniform(LongBatch), Uniform(Batch(<<RA_second, RA_bare>>))}

\* The article numbers asked for: none, the first, one past a single article,
\* and one past the categories of a briefing
ArticleNumbers == {0, 1, 2, Len(NEWS_CATEGORIES) + 1}

\* The texts handed to the keyword fallback: up to MaxWords fragments of
\* FallbackWords, separated by spaces.
FallbackWords ==
    {"Technology", "POLITICS", "sports", "Entertainment", "business", "health",
     "science", "News", "headlines", "UPDATES", "Hello", "hi", "hey",
     "Good Morning", "good evening", "this", "weather"}

MaxWords == 2

RECURSIVE Phrases(_)
Phrases(n) ==
    IF n = 0 THEN {""}
    ELSE LET shorter == Phrases(n - 1)
         IN  shorter \cup {IF p = "" THEN w ELSE p \o " " \o w :
                               p \in shorter, w \in FallbackWords}

FallbackReplies == {T_prose, T_truncated}

\* A description of n one-letter words, n up to 26: "a b c ..."
Words(n) == SubSeq("a b c d e f g h i j k l m n o p q r s t u v w x y z", 1, 2 * n - 1)

\* The descriptions of the articles handed to the formatter: short, equal to
\* the title, empty, null, one word below, at and above the summary length,
\* and not a string
FormatDescriptions ==
    {StrV("The booster returned to the pad."), StrV("Rocket lands"), StrV(""), NoneV,
     StrV(Words(SummaryWords - 1)), StrV(Words(SummaryWords)), StrV(Words(SummaryWords + 1)),
     NumV(7)}

\* Articles as get_top_headlines and search_news return them, up to n of them
FormatArticles ==
    {RawArticle("Rocket lands", d) : d \in FormatDescriptions} \cup {RA_bare}

RECURSIVE Batches(_)
Batches(n) ==
    IF n = 0 THEN {<<>>}
    ELSE Batches(n - 1) \cup {Append(b, a) : b \in Batches(n - 1), a \in FormatArticles}

FormatLabels == {StrV("technology"), StrV("search results for mars")}

MaxArticles == 2

\* Chat: conversations long enough for the history to outgrow the window
Chat ==
    [texts |-> {"Sports NEWS please", "Hello"},
     voices |-> {"female"},
     upstreams |-> {UpRaise, UpContent(StrV(J_greeting)), UpContent(StrV(T_prose))},
     news |-> {Uniform(ProviderRaise)},
     synths |-> {SynthRaise},
     transcripts |-> {TranscribeNoResults, Transcript("Hello")}]

ChatMaxHistory == 8

\* The most history entries a turn may start from leaves room for its own two
MaxHistory == 4
MaxAudio == 2
WideMaxHistory == 2

-----------------------------------------------------------------------------
(* The orchestrator as a state machine: one action per public operation *)

NoOp == [name |-> "init"]

Init ==
    /\ conversation_history = <<>>
    /\ current_session = InitialSession
    /\ audio_storage = EmptyDict
    /\ next_audio_id = 0
    /\ op = NoOp

\* user_text is the text input, or what the transcriber returned
TurnOp(name, voice_type, world, user_text, r) ==
    [name |-> name, voice_type |-> voice_type, up |-> world.up, world |-> world,
     user_text |-> user_text,
     ai_response |-> r.ai_response, messages |-> r.messages,
     calls |-> r.calls, ret |-> r.ret]

\* The state a turn that gave r leaves
Turn(name, voice_type, world, user_text, r) ==
    /\ current_session' = r.session
    /\ conversation_history' = r.history
    /\ op' = TurnOp(name, voice_type, world, user_text, r)
    /\ UNCHANGED <<audio_storage, next_audio_id>>

\* A call of handle_text_input with inputs drawn from profile I
TextTurn(I, cap) ==
    /\ Len(conversation_history) + 2 <= cap
    /\ \E text_input \in I.texts, voice_type \in I.voices, up \in I.upstreams :
         \E news \in NewsWorldsFor(I, process_user_input(conversation_history,
                                                         text_input, up).out),
            synth \in I.synths :
               Turn("handle_text_input", voice_type,
                    World(up, news, synth, TranscribeRaise), StrV(text_input),
                    handle_text_input(current_session, conversation_history,
                                      World(up, news, synth, TranscribeRaise),
                                      text_input, voice_type))

\* The classifier's result on a transcript; None when there is no transcript
\* and the language model is not called
ClassifiedTranscript(transcript, up) ==
    IF Truthy(transcript)
    THEN process_user_input(conversation_history, transcript.s, up).out
    ELSE NoneV

\* A call of handle_voice_input with inputs drawn from profile I
VoiceTurn(I, cap) ==
    /\ Len(conversation_history) + 2 <= cap
    /\ \E transcribe \in I.transcripts, voice_type \in I.voices :
         \E up \in IF Truthy(transcribe_audio(transcribe))
                   THEN I.upstreams ELSE {UpNotCalled} :
           \E news \in NewsWorldsFor(I, ClassifiedTranscript(transcribe_audio(transcribe), up)),
              synth \in I.synths :
                 Turn("handle_voice_input", voice_type,
                      World(up, news, synth, transcribe), transcribe_audio(transcribe),
                      handle_voice_input(current_session, conversation_history,
                                         World(up, news, synth, transcribe),
                                         voice_type))

HandleTextInput == TextTurn(Narrow, MaxHistory)

HandleVoiceInput == VoiceTurn(Narrow, MaxHistory)

ClearSession ==
    /\ LET r == clear_session(current_session, conversation_history)
       IN  /\ current_session' = r.session
           /\ conversation_history' = r.history
    /\ op' = [name |-> "clear_session",
              before |-> [history |-> Len(conversation_history),
                          session |-> DOMAIN current_session]]
    /\ UNCHANGED <<audio_storage, next_audio_id>>

Next == HandleTextInput \/ HandleVoiceInput \/ ClearSession

Spec == Init /\ [][Next]_vars

\* Single turns over every reply shape and provider outcome
WideTextInput == TextTurn(Wide, WideMaxHistory)

WideVoiceInput == VoiceTurn(Wide, WideMaxHistory)

NextWide == WideTextInput \/ WideVoiceInput \/ ClearSession

SpecWide == Init /\ [][NextWide]_vars

\* The endpoints of main.py over the orchestrator and the audio registry
HeadlinesWorldsFor(r, searched) ==
    IF r.ret.text.t = "str" /\ searched.t = "str"
       /\ HeadlinesCategory(r.ret.text.s, searched.s) # 0
    THEN Http.news
    ELSE {Uniform(ProviderRaise)}

Register(resp, audio) ==
    /\ resp.store => next_audio_id < MaxAudio
    /\ audio_storage' = IF resp.store
                        THEN (AudioId(next_audio_id) :> audio) @@ audio_storage
                        ELSE audio_storage
    /\ next_audio_id' = IF resp.store THEN next_audio_id + 1 ELSE next_audio_id

\* The state an endpoint leaves: the orchestrator gave r, the endpoint
\* answers resp.
Endpoint(name, text, r, resp) ==
    /\ current_session' = r.session
    /\ conversation_history' = r.history
    /\ Register(resp, r.ret.audio)
    /\ op' = [name |-> name, text |-> text, response |-> resp.response]

\* POST /api/text, once the orchestrator gave r
ApiTextAnswer(r, text_input, up, synth) ==
    \E again \in HeadlinesWorldsFor(r, StrV(text_input)) :
        Endpoint("api_text", StrV(text_input), r,
                 api_text(r, World(up, again, synth, TranscribeRaise),
                          text_input, AudioId(next_audio_id)))

ApiText ==
    /\ Len(conversation_history) + 2 <= MaxHistory
    /\ \E text_input \in Http.texts, voice_type \in Http.voices, up \in Http.upstreams :
         \E news \in NewsWorldsFor(Http, process_user_input(conversation_history,
                                                            text_input, up).out),
            synth \in Http.synths :
               ApiTextAnswer(handle_text_input(current_session, conversation_history,
                                               World(up, news, synth, TranscribeRaise),
                                               text_input, voice_type),
                             text_input, up, synth)

\* POST /api/voice, once the orchestrator gave r
ApiVoiceAnswer(r, transcribe, up, synth) ==
    \E again \in HeadlinesWorldsFor(r, r.ret.text) :
        Endpoint("api_voice", transcribe_audio(transcribe), r,
                 api_voice(r, World(up, again, synth, transcribe),
                           AudioId(next_audio_id)))

ApiVoice ==
    /\ Len(conversation_history) + 2 <= MaxHistory
    /\ \E transcribe \in Http.transcripts, voice_type \in Http.voices :
         \E up \in IF Truthy(transcribe_audio(transcribe))
                   THEN Http.upstreams ELSE {UpNotCalled} :
           \E news \in NewsWorldsFor(Http, ClassifiedTranscript(transcribe_audio(transcribe), up)),
              synth \in Http.synths :
                 ApiVoiceAnswer(handle_voice_input(current_session, conversation_history,
                                                   World(up, news, synth, transcribe),
                                                   voice_type),
                                transcribe, up, synth)

\* A client asks for any identifier: one handed out, or one never generated
ServeAudio ==
    /\ \E audio_id \in {AudioId(n) : n \in 0..MaxAudio} :
         LET r == serve_audio(audio_storage, audio_id)
         IN  /\ audio_storage' = r.storage
             /\ op' = [name |-> "serve_audio", audio_id |-> audio_id,
                       response |-> r.response]
    /\ UNCHANGED <<conversation_history, current_session, next_audio_id>>

\* The queries of the orchestrator, callable in any state of a session
QueryTextInput == TextTurn(Narrow, WideMaxHistory)

QueryVoiceInput == VoiceTurn(Narrow, WideMaxHistory)

\* await conversation_handler.get_headlines_only(category)
GetHeadlinesOnly ==
    /\ \E category \in QueryCategories, news \in QueryNews :
         op' = [name |-> "get_headlines_only", category |-> category, news |-> news,
                ret |-> get_headlines_only(news, category)]
    /\ UNCHANGED <<conversation_history, current_session, audio_storage, next_audio_id>>

\* GET /api/session
GetSessionInfo ==
    /\ op' = [name |-> "get_session_info",
              result |-> get_session_info(current_session, conversation_history),
              ret |-> api_session(current_session, conversation_history)]
    /\ UNCHANGED <<conversation_history, current_session, audio_storage, next_audio_id>>

\* await conversation_handler.get_detailed_article(article_number)
GetDetailedArticle ==
    /\ \E article_number \in ArticleNumbers :
         op' = [name |-> "get_detailed_article", article_number |-> article_number,
                out |-> get_detailed_article(current_session, article_number)]
    /\ UNCHANGED <<conversation_history, current_session, audio_storage, next_audio_id>>

NextQueries ==
    \/ QueryTextInput
    \/ QueryVoiceInput
    \/ ClearSession
    \/ GetHeadlinesOnly
    \/ GetSessionInfo
    \/ GetDetailedArticle

SpecQueries == Init /\ [][NextQueries]_vars

NextHttp == ApiText \/ ApiVoice \/ ServeAudio \/ ClearSession

SpecHttp == Init /\ [][NextHttp]_vars

\* The keyword fallback as a function of its two arguments
InitFallback ==
    /\ conversation_history = <<>>
    /\ current_session = InitialSession
    /\ audio_storage = EmptyDict
    /\ next_audio_id = 0
    /\ \E ai_response \in FallbackReplies, user_text \in Phrases(MaxWords) :
         op = [name |-> "input", ai_response |-> ai_response, user_text |-> user_text]

Fallback ==
    /\ op.name = "input"
    /\ op' = [name |-> "_parse_fallback_response",
              ai_response |-> op.ai_response, user_text |-> op.user_text,
              ret |-> _parse_fallback_response(op.ai_response, op.user_text)]
    /\ UNCHANGED <<conversation_history, current_session, audio_storage, next_audio_id>>

NextFallback == Fallback

SpecFallback == InitFallback /\ [][NextFallback]_vars

\* Long conversations
ChatTextInput == TextTurn(Chat, ChatMaxHistory)

ChatVoiceInput == VoiceTurn(Chat, ChatMaxHistory)

NextChat == ChatTextInput \/ ChatVoiceInput \/ ClearSession

SpecChat == Init /\ [][NextChat]_vars

\* The voice-oriented formatter as a function of its two arguments
InitFormat ==
    /\ conversation_history = <<>>
    /\ current_session = InitialSession
    /\ audio_storage = EmptyDict
    /\ next_audio_id = 0
    /\ \E raw \in Batches(MaxArticles), category \in FormatLabels :
         op = [name |-> "articles",
               articles |-> ListV([i \in 1..Len(raw) |-> FormattedArticle(i, raw[i])]),
               category |-> category]

Format ==
    /\ op.name = "articles"
    /\ op' = [name |-> "format_news_for_speech",
              articles |-> op.articles, category |-> op.category,
              out |-> format_news_for_speech(op.articles, op.category)]
    /\ UNCHANGED <<conversation_history, current_session, audio_storage, next_audio_id>>

NextFormat == Format

SpecFormat == InitFormat /\ [][NextFormat]_vars

-----------------------------------------------------------------------------
(* Properties *)

IsTurn(o) == o.name \in {"handle_text_input", "handle_voice_input"}

\* The turn called the classifier
Classified(o) == IsTurn(o) /\ o.up.kind # "notcalled"

CallsOf(o, fns) == SelectSeq(o.calls, LAMBDA c : c.fn \in fns)

NewsCalls(o) == CallsOf(o, {"get_top_headlines", "search_news"})

SynthCalls(o) == CallsOf(o, {"synthesize_speech"})

\* C2: handle_text_input and handle_voice_input return, for every combination
\* of collaborator outcomes, a pair (text, audio) whose text is a string and
\* whose audio is bytes or null.
C2_ReturnsTextAndAudio ==
    IsTurn(op) => /\ op.ret.text.t = "str"
                  /\ op.ret.audio.t \in {"bytes", "none"}

\* The classifier's result was not a dict, so _handle_intent raised and the
\* except clause of the public operation ran.
TopLevelHandlerRan(o) == Classified(o) /\ Branch(o.ai_response) = "raise"

SynthesizedApology(o, text) ==
    /\ o.ret.text = StrV(text)
    /\ Len(SynthCalls(o)) = 1
    /\ SynthCalls(o)[1].arg = StrV(text)
    /\ o.ret.audio = SynthCalls(o)[1].ret

\* C3 as stated: in both operations an error that reaches the top-level
\* handler becomes the text "I'm experiencing some technical difficulties..."
\* and that text is synthesized.
C3_SameApologyInBoth ==
    TopLevelHandlerRan(op) => SynthesizedApology(op, TechnicalDifficultiesResponse)

\* C3 amended: handle_voice_input answers with the technical-difficulties
\* text and synthesizes it; handle_text_input answers with "I'm sorry, I
\* encountered an error processing your request." and null audio, and calls
\* the synthesizer not at all.
C3_ApologyPerOperation ==
    TopLevelHandlerRan(op) =>
        IF op.name = "handle_voice_input"
        THEN SynthesizedApology(op, TechnicalDifficultiesResponse)
        ELSE /\ op.ret = [text |-> StrV("I'm sorry, I encountered an error processing your request."),
                          audio |-> NoneV]
             /\ Len(SynthCalls(op)) = 0

C3_Witness ==
    /\ TopLevelHandlerRan(op)
    /\ op.name = "handle_text_input"
    /\ op.ret.text = StrV(TextErrorResponse)

\* The transcriber returned null or the empty transcript
NoTranscript(o) ==
    /\ o.name = "handle_voice_input"
    /\ o.user_text \in {NoneV, StrV("")}

\* C4: when the transcriber returns null or an empty transcript,
\* handle_voice_input calls neither the classifier nor a news endpoint, returns
\* the clarification text, synthesizes that text exactly once, and leaves the
\* session and the conversation history unchanged.
C4_NoTranscriptNoClassifier ==
    [][NoTranscript(op') =>
          /\ Len(CallsOf(op', {"process_user_input"})) = 0
          /\ Len(NewsCalls(op')) = 0
          /\ SynthesizedApology(op', "I'm sorry, I couldn't understand what you said. Could you please try again?")
          /\ current_session' = current_session
          /\ conversation_history' = conversation_history]_vars

C4_Witness ==
    /\ NoTranscript(op)
    /\ op.user_text = StrV("")
    /\ "last_news_data" \in DOMAIN current_session
    /\ Len(conversation_history) > 0

\* What a turn fetched: the articles of its one news request, or the mapping
\* from category to articles of its seven.
TurnNewsResult(o) ==
    IF Len(NewsCalls(o)) = 1
    THEN NewsCalls(o)[1].ret
    ELSE OrderedDictV([k \in 1..Len(NewsCalls(o)) |-> NewsCalls(o)[k].arg.s],
                      [c \in {NewsCalls(o)[k].arg.s : k \in 1..Len(NewsCalls(o))} |->
                          LET k == CHOOSE k \in 1..Len(NewsCalls(o)) : NewsCalls(o)[k].arg = StrV(c)
                          IN  NewsCalls(o)[k].ret])

\* The session a fetch_news resp. search_news turn leaves, as the claim has it
FetchWritten(old, o) ==
    [last_category |-> DictGet(o.ai_response.d, "category", StrV("general")),
     last_news_data |-> TurnNewsResult(o),
     last_action |-> StrV("news_fetch")] @@ old

SearchWritten(old, o) ==
    [last_search |-> DictGet(o.ai_response.d, "search_query", StrV("")),
     last_news_data |-> TurnNewsResult(o),
     last_action |-> StrV("news_search")] @@ old

\* The turn answered with the text _handle_intent gives when a branch raised
BranchRaised(o) == o.ret.text = StrV(IntentErrorResponse)

\* C5 as stated: a turn changes the session if and only if it took the
\* fetch_news or search_news branch; every such turn sets last_action and
\* stores its result, every other turn leaves the session unchanged.  (Stated
\* here of the turns whose branch did not raise.)
C5_EveryNewsBranchWrites ==
    [][IsTurn(op') /\ ~BranchRaised(op') =>
          CASE Branch(op'.ai_response) = "fetch_news" ->
                   /\ Len(NewsCalls(op')) > 0
                   /\ current_session' = FetchWritten(current_session, op')
            [] Branch(op'.ai_response) = "search_news" ->
                   /\ Len(NewsCalls(op')) > 0
                   /\ current_session' = SearchWritten(current_session, op')
            [] OTHER -> current_session' = current_session]_vars

\* C5 amended: a turn writes the session if and only if it took the fetch_news
\* branch, or the search_news branch with a non-empty search_query, and the
\* branch did not raise while formatting; then last_action names the branch
\* and last_news_data is that turn's result.  Every other turn (respond_only,
\* an unrecognized action, search_news with an empty or missing query, a
\* branch that raised) leaves the session unchanged.
C5_NewsBranchWrites ==
    [][IsTurn(op') =>
          CASE Branch(op'.ai_response) = "fetch_news" /\ ~BranchRaised(op') ->
                   current_session' = FetchWritten(current_session, op')
            [] /\ Branch(op'.ai_response) = "search_news"
               /\ Truthy(DictGet(op'.ai_response.d, "search_query", StrV("")))
               /\ ~BranchRaised(op') ->
                   current_session' = SearchWritten(current_session, op')
            [] OTHER -> current_session' = current_session]_vars

\* A search turn with an empty query, after a fetch: the session still holds
\* what the fetch stored.
C5_Witness ==
    /\ IsTurn(op)
    /\ Branch(op.ai_response) = "search_news"
    /\ ~Truthy(DictGet(op.ai_response.d, "search_query", StrV("")))
    /\ "last_action" \in DOMAIN current_session
    /\ current_session.last_action = StrV("news_fetch")

\* C6: clear_session leaves the empty session and the empty history, from any
\* state, and a second call changes nothing.
C6_ClearSessionResets ==
    op.name = "clear_session" =>
        /\ current_session = EmptyDict
        /\ conversation_history = <<>>
        /\ clear_session(current_session, conversation_history)
               = [session |-> current_session, history |-> conversation_history]

C6_Witness ==
    /\ op.name = "clear_session"
    /\ op.before.history > 0
    /\ "last_news_data" \in op.before.session

\* The IntentResult structure of the classifier's contract
Intents == {"news_category", "news_search", "general_conversation", "greeting", "help"}
Actions == {"fetch_news", "search_news", "respond_only"}

Conforming(v) ==
    /\ v.t = "dict"
    /\ {"intent", "response", "action"} \subseteq DOMAIN v.d
    /\ v.d.intent \in {StrV(i) : i \in Intents}
    /\ v.d.action \in {StrV(a) : a \in Actions}
    /\ v.d.response.t = "str"
    /\ v.d.action = StrV("fetch_news") => "category" \in DOMAIN v.d /\ v.d.category.t = "str"
    /\ v.d.action = StrV("search_news") =>
           "search_query" \in DOMAIN v.d /\ v.d.search_query.t = "str"

\* The upstream call returned a reply with text
Replied(o) == Classified(o) /\ o.up.kind = "content" /\ o.up.content.t = "str"

NonConformingReply(o) ==
    /\ Replied(o)
    /\ LET parsed == json_loads(Strip(o.up.content.s))
       IN  IsRaise(parsed) \/ ~Conforming(parsed.ret)

\* C7: whenever the upstream reply is not a conforming IntentResult (malformed
\* JSON, or valid JSON of another shape), process_user_input returns what the
\* keyword fallback computes from the user text.
C7_FallbackForNonConforming ==
    NonConformingReply(op) =>
        op.ai_response = _parse_fallback_response(Strip(op.up.content.s), op.user_text.s)

\* C9: every result process_user_input hands to the orchestrator has a
\* category when its action is fetch_news and a search_query when its action
\* is search_news.
C9_ActionHasItsField ==
    Classified(op) /\ op.ai_response.t = "dict" =>
        /\ DictGet(op.ai_response.d, "action", NoneV) = StrV("fetch_news")
               => "category" \in DOMAIN op.ai_response.d
        /\ DictGet(op.ai_response.d, "action", NoneV) = StrV("search_news")
               => "search_query" \in DOMAIN op.ai_response.d

\* C10: when the upstream call fails, process_user_input returns the sentinel
\* (general_conversation, respond_only, the apology) and the turn ends as a
\* respond_only turn: no news request, the apology as its text.
C10_UpstreamFailureSentinel ==
    Classified(op) /\ op.up.kind = "raise" =>
        /\ op.ai_response
               = DictV([intent |-> StrV("general_conversation"),
                        response |-> StrV("I'm sorry, I'm having trouble processing your request right now. Please try again."),
                        action |-> StrV("respond_only")])
        /\ Len(NewsCalls(op)) = 0
        /\ op.ret.text = StrV("I'm sorry, I'm having trouble processing your request right now. Please try again.")

C10_Witness ==
    /\ Classified(op)
    /\ op.up.kind = "raise"
    /\ op.user_text = StrV("Sports NEWS please")
    /\ Len(conversation_history) = 1

\* The identifier was handed out by an endpoint that stored audio under it
Registered(audio_id) == \E n \in 0..(next_audio_id - 1) : audio_id = AudioId(n)

\* C1: for an identifier registered in audio_storage, the first retrieval
\* through serve_audio returns the stored bytes and removes the entry, and
\* every later retrieval answers 404 "Audio not found".
C1_RetrieveOnceThenNotFound ==
    [][op'.name = "serve_audio" /\ Registered(op'.audio_id) =>
          IF op'.audio_id \in DOMAIN audio_storage
          THEN /\ op'.response.status = 200
               /\ op'.response.content = audio_storage[op'.audio_id]
               /\ op'.audio_id \notin DOMAIN audio_storage'
          ELSE op'.response = [status |-> 404, detail |-> "Audio not found"]]_vars

FallbackRan == op.name = "_parse_fallback_response"

Occurs(words, text) == {w \in words : Contains(w, text)}

\* C8: on the lowercased user text the fallback answers, in this precedence:
\* a category name occurs -> news_category/fetch_news for the first such
\* category of the configured order; else news, headlines or updates occurs
\* -> news_category/fetch_news for "general"; else a greeting word occurs ->
\* greeting/respond_only with the introduction; else general_conversation/
\* respond_only with the upstream text it was given.
C8_FallbackPrecedence ==
    FallbackRan =>
        LET text == Lower(op.user_text)
            categories == Occurs({"technology", "politics", "sports", "entertainment",
                                  "business", "health", "science"}, text)
            ret == op.ret.d
        IN  IF categories # {}
            THEN /\ ret.intent = StrV("news_category")
                 /\ ret.action = StrV("fetch_news")
                 /\ \E i \in 1..Len(NEWS_CATEGORIES) :
                        /\ ret.category = StrV(NEWS_CATEGORIES[i])
                        /\ NEWS_CATEGORIES[i] \in categories
                        /\ \A j \in 1..(i - 1) : NEWS_CATEGORIES[j] \notin categories
            ELSE IF Occurs({"news", "headlines", "updates"}, text) # {}
            THEN /\ ret.intent = StrV("news_category")
                 /\ ret.action = StrV("fetch_news")
                 /\ ret.category = StrV("general")
            ELSE IF Occurs({"hello", "hi", "hey", "good morning", "good evening"}, text) # {}
            THEN /\ ret.intent = StrV("greeting")
                 /\ ret.action = StrV("respond_only")
                 /\ ret.response = StrV("Hello! I'm Akashvani AI, your voice assistant for news updates. Ask me for news from any category like technology, politics, sports, or entertainment!")
            ELSE /\ ret.intent = StrV("general_conversation")
                 /\ ret.action = StrV("respond_only")
                 /\ ret.response = StrV(op.ai_response)

\* A category name and the generic keyword together, in mixed case
C8_Witness ==
    /\ FallbackRan
    /\ op.user_text = "sports News"
    /\ op.ret.d.category = StrV("sports")

\* What the operation of turn o returns from state (session, history) when
\* the collaborators behave as world
Replay(o, session, history, world) ==
    IF o.name = "handle_text_input"
    THEN handle_text_input(session, history, world, o.user_text.s, o.voice_type)
    ELSE handle_voice_input(session, history, world, o.voice_type)

\* synthesize_speech fails: the request raises, or the reply holds no stream
SynthesisFails(o) == o.world.synth \in {SynthRaise, SynthNoStream}

\* The turn gave the text, the session and the history of the turn r, and no audio
SameButSilent(r, ret, session, history) ==
    /\ ret = [text |-> r.ret.text, audio |-> NoneV]
    /\ session = r.session
    /\ history = r.history

\* C11: a turn whose synthesis fails returns (text, null) with the text the
\* same turn returns when synthesis succeeds, and leaves the session (and the
\* history) that turn leaves.
C11_SynthesisFailureKeepsText ==
    [][IsTurn(op') /\ SynthesisFails(op') =>
          SameButSilent(Replay(op', current_session, conversation_history,
                               [op'.world EXCEPT !.synth = SynthStream("RIFF")]),
                        op'.ret, current_session', conversation_history')]_vars

\* A news turn whose synthesis raised: the headlines are returned and stored
C11_Witness ==
    /\ IsTurn(op)
    /\ op.world.synth = SynthRaise
    /\ Len(NewsCalls(op)) = 1
    /\ Truthy(NewsCalls(op)[1].ret)
    /\ op.ret.audio = NoneV
    /\ "last_news_data" \in DOMAIN current_session

\* The turn took the fetch_news branch for "general": _handle_news_request
\* called get_all_categories_news and stored its result
GeneralFetch(o) ==
    /\ IsTurn(o)
    /\ Branch(o.ai_response) = "fetch_news"
    /\ DictGet(o.ai_response.d, "category", StrV("general")) = StrV("general")

\* The provider failed the request for category c during turn o
FetchFailed(o, c) == o.world.byCat[c] = ProviderRaise

\* C12: the result of get_all_categories_news has exactly the 7 categories as
\* keys, in declaration order; a category whose fetch failed maps to the empty
\* list and every other category to the articles fetched for it alone.
C12_PerCategoryIsolation ==
    GeneralFetch(op) =>
        LET all_news == current_session.last_news_data
        IN  /\ all_news.keys = <<"technology", "politics", "sports", "entertainment",
                                 "business", "health", "science">>
            /\ DOMAIN all_news.d = {all_news.keys[i] : i \in 1..Len(all_news.keys)}
            /\ \A c \in DOMAIN all_news.d :
                   all_news.d[c] = IF FetchFailed(op, c) THEN ListV(<<>>)
                                   ELSE NormalizeReply(op.world.byCat[c], 3)

\* The sports request failed and the other categories hold their articles
C12_Witness ==
    /\ GeneralFetch(op)
    /\ FetchFailed(op, "sports")
    /\ ~FetchFailed(op, "science")
    /\ current_session.last_news_data.d["sports"] = ListV(<<>>)
    /\ Len(current_session.last_news_data.d["science"].items) = 1

\* What the provider answered to news call c of turn o, and the limit asked
CallOutcome(o, c) ==
    IF c.fn = "search_news" THEN o.world.search ELSE HeadlinesOutcome(o.world, c.arg)

CallLimit(o) == IF GeneralFetch(o) THEN 3 ELSE 5

\* The provider replied with a document holding a list of article objects
HasArticles(outcome) ==
    /\ outcome.kind = "data"
    /\ outcome.data.t = "dict"
    /\ "articles" \in DOMAIN outcome.data.d
    /\ outcome.data.d.articles.t = "list"
    /\ \A i \in 1..Len(outcome.data.d.articles.items) :
           outcome.data.d.articles.items[i].t = "dict"

Smaller(a, b) == IF a <= b THEN a ELSE b

\* Field f of a normalized article is a string: the raw field when the raw
\* article holds a string there, the empty string when it holds none
NormalField(raw, got, f) ==
    /\ f \in DOMAIN got.d
    /\ got.d[f].t = "str"
    /\ f \notin DOMAIN raw.d => got.d[f] = StrV("")
    /\ (f \in DOMAIN raw.d /\ raw.d[f].t = "str") => got.d[f] = raw.d[f]

\* C13: for a provider reply of K raw articles and limit L, get_top_headlines
\* and search_news return min(K, L) articles in provider order, numbered
\* 1..min(K, L), whose title, description, source, url and publishedAt are
\* strings, the empty string when the raw field is missing.
C13_NormalizedArticles ==
    IsTurn(op) =>
        \A k \in 1..Len(NewsCalls(op)) :
            HasArticles(CallOutcome(op, NewsCalls(op)[k])) =>
                LET raw == CallOutcome(op, NewsCalls(op)[k]).data.d.articles.items
                    got == NewsCalls(op)[k].ret.items
                IN  /\ Len(got) = Smaller(Len(raw), CallLimit(op))
                    /\ \A i \in 1..Len(got) :
                           /\ got[i].d.number = NumV(i)
                           /\ \A f \in {"title", "description", "url", "publishedAt"} :
                                  NormalField(raw[i], got[i], f)
                           /\ "source" \in DOMAIN got[i].d
                           /\ got[i].d.source.t = "str"

\* The turn took the search_news branch with an empty or missing search_query
EmptySearch(o) ==
    /\ IsTurn(o)
    /\ Branch(o.ai_response) = "search_news"
    /\ \/ "search_query" \notin DOMAIN o.ai_response.d
       \/ o.ai_response.d.search_query = StrV("")

\* C14: a search_news turn whose search_query is empty or missing returns the
\* clarification request and calls no news endpoint.
C14_EmptySearchAsksForTopic ==
    EmptySearch(op) =>
        /\ op.ret.text = StrV("I need a specific topic to search for. What news would you like me to find?")
        /\ Len(NewsCalls(op)) = 0

\* A search_news result without search_query, while the provider has articles
C14_Witness ==
    /\ EmptySearch(op)
    /\ "search_query" \notin DOMAIN op.ai_response.d
    /\ HasArticles(op.world.search)

\* The classifier's result is an object whose action is neither fetch_news nor
\* search_news: respond_only, an unrecognised value, or no action at all
RespondsOnly(o) ==
    /\ Classified(o)
    /\ o.ai_response.t = "dict"
    /\ \/ "action" \notin DOMAIN o.ai_response.d
       \/ o.ai_response.d.action \notin {StrV("fetch_news"), StrV("search_news")}

\* C15: for action respond_only and for every action value other than
\* fetch_news and search_news (a missing action included) the turn performs no
\* news fetch and returns the classifier's draft response as it is, or the
\* generic string "I'm here to help you with news updates!" when the result
\* has no response field.
C15_RespondOnlyEchoesDraft ==
    RespondsOnly(op) =>
        /\ Len(NewsCalls(op)) = 0
        /\ op.ret.text = IF "response" \in DOMAIN op.ai_response.d
                         THEN op.ai_response.d.response
                         ELSE StrV("I'm here to help you with news updates!")

\* An unrecognised action with a draft
C15_Witness ==
    /\ RespondsOnly(op)
    /\ DictGet(op.ai_response.d, "action", NoneV) = StrV("dance")
    /\ op.ret.text = StrV("Let us dance.")

\* No action and no draft: the generic string
C15_WitnessGeneric ==
    /\ RespondsOnly(op)
    /\ DOMAIN op.ai_response.d = {}
    /\ op.ret.text = StrV("I'm here to help you with news updates!")

\* The turn took the fetch_news branch for a category other than "general"
NamedFetch(o) ==
    /\ IsTurn(o)
    /\ Branch(o.ai_response) = "fetch_news"
    /\ DictGet(o.ai_response.d, "category", StrV("general")) # StrV("general")

\* The headline lines of the digest, from the fetches the turn made
RECURSIVE HeadlineLines(_, _)
HeadlineLines(k, fetches) ==
    IF k > Len(fetches) THEN ""
    ELSE (IF Len(fetches[k].ret.items) > 0
          THEN "Top " \o fetches[k].arg.s \o " headline: "
               \o Str(fetches[k].ret.items[1].d.title) \o ".\n\n"
          ELSE "")
         \o HeadlineLines(k + 1, fetches)

\* C16: with category "general" the turn fetches up to 3 articles for each of
\* the 7 categories, in declaration order, and returns the digest: one
\* headline line, holding the first article's title, for each category that
\* returned an article, in that order, ending with the prompt; with any other
\* category it makes exactly one fetch, of that category, with limit 5.
C16_FetchDispatch ==
    /\ GeneralFetch(op) =>
           /\ Len(NewsCalls(op)) = 7
           /\ \A k \in 1..7 :
                  /\ NewsCalls(op)[k].fn = "get_top_headlines"
                  /\ NewsCalls(op)[k].arg = StrV(NEWS_CATEGORIES[k])
                  /\ NewsCalls(op)[k].ret = NormalizeReply(op.world.byCat[NEWS_CATEGORIES[k]], 3)
                  /\ Len(NewsCalls(op)[k].ret.items) <= 3
           /\ op.ret.text = StrV("Here's your news briefing from Akashvani AI.\n\n"
                                 \o HeadlineLines(1, NewsCalls(op))
                                 \o "Which category would you like me to read in detail?")
    /\ NamedFetch(op) =>
           /\ Len(NewsCalls(op)) = 1
           /\ NewsCalls(op)[1].fn = "get_top_headlines"
           /\ NewsCalls(op)[1].arg = op.ai_response.d.category
           /\ NewsCalls(op)[1].ret = NormalizeReply(HeadlinesOutcome(op.world, op.ai_response.d.category), 5)
           /\ Len(NewsCalls(op)[1].ret.items) <= 5

\* A briefing where the provider held more than 3 articles per category
C16_Witness ==
    /\ GeneralFetch(op)
    /\ op.world.byCat["science"] = LongBatch
    /\ Len(NewsCalls(op)[7].ret.items) = 3

\* A briefing where only one category had an article
C16_WitnessOneLine ==
    /\ GeneralFetch(op)
    /\ op.ret.text = StrV("Here's your news briefing from Akashvani AI.\n\nTop health headline: Cup final.\n\nWhich category would you like me to read in detail?")

\* A named category where the provider held more than 5 articles
C16_WitnessNamed ==
    /\ NamedFetch(op)
    /\ op.world.byCat["sports"] = LongBatch
    /\ Len(NewsCalls(op)[1].ret.items) = 5

\* The named fetch of the turn came back with no article
EmptyNamedFetch(o) ==
    /\ NamedFetch(o)
    /\ Len(NewsCalls(o)) = 1
    /\ NewsCalls(o)[1].ret = ListV(<<>>)

\* C17: when a named-category fetch returns zero articles (a failed fetch
\* included) the turn answers with the apology that offers another category,
\* and the session afterwards holds last_category = that category,
\* last_news_data = the empty list and last_action = news_fetch.
C17_EmptyFetchApologisesAndStores ==
    EmptyNamedFetch(op) =>
        /\ op.ret.text = StrV("I'm sorry, I couldn't fetch " \o Str(op.ai_response.d.category)
                              \o " news at the moment. Would you like news from another category?")
        /\ DictGet(current_session, "last_category", NoneV) = op.ai_response.d.category
        /\ DictGet(current_session, "last_news_data", NoneV) = ListV(<<>>)
        /\ DictGet(current_session, "last_action", NoneV) = StrV("news_fetch")

\* The sports request failed at the provider
C17_Witness ==
    /\ EmptyNamedFetch(op)
    /\ op.ai_response.d.category = StrV("sports")
    /\ FetchFailed(op, "sports")
    /\ op.ret.text = StrV("I'm sorry, I couldn't fetch sports news at the moment. Would you like news from another category?")

\* The provider answered the sports request with an empty list
C17_WitnessNoArticles ==
    /\ EmptyNamedFetch(op)
    /\ op.world.byCat["sports"] = Batch(<<>>)
    /\ current_session.last_news_data = ListV(<<>>)

\* Title, source and publication time of a fetched article
HeadlineOf(article) ==
    DictV([title |-> article.d.title, source |-> article.d.source,
           publishedAt |-> article.d.publishedAt])

\* What get_top_headlines gives for the category of the query, limit 5
QueryFetched(o) == NormalizeReply(HeadlinesOutcome(o.news, StrV(o.category)), 5).items

\* C18: get_headlines_only(category) returns at most 5 items, each holding
\* exactly title, source and publishedAt, in the order of the fetch; the result
\* depends on the fetch alone and the call leaves session and history as they
\* were, in every state, the one right after clear_session included.
C18_HeadlinesOnlyIsAQuery ==
    [][op'.name = "get_headlines_only" =>
          /\ op'.ret.t = "list"
          /\ Len(op'.ret.items) <= 5
          /\ Len(op'.ret.items) = Len(QueryFetched(op'))
          /\ \A i \in 1..Len(op'.ret.items) :
                 /\ DOMAIN op'.ret.items[i].d = {"title", "source", "publishedAt"}
                 /\ op'.ret.items[i] = HeadlineOf(QueryFetched(op')[i])
          /\ current_session' = current_session
          /\ conversation_history' = conversation_history]_vars

\* Right after clear_session, with a provider holding more than 5 articles
C18_Witness ==
    /\ op.name = "get_headlines_only"
    /\ current_session = EmptyDict
    /\ conversation_history = <<>>
    /\ op.category = "technology"
    /\ Len(op.ret.items) = 5

\* After a turn that stored news in the session
C18_WitnessAfterFetch ==
    /\ op.name = "get_headlines_only"
    /\ "last_news_data" \in DOMAIN current_session
    /\ Len(op.ret.items) = 2

\* C19: get_session_info returns, in every reachable state and without
\* raising, a record holding the current session, the summary of the
\* conversation history and the available voices, male and female.
C19_SessionInfoReturns ==
    op.name = "get_session_info" =>
        /\ IsRet(op.result)
        /\ op.result.ret.d.session_data = DictV(current_session)
        /\ op.result.ret.d.conversation_summary = get_conversation_summary(conversation_history)
        /\ DOMAIN op.result.ret.d.available_voices.d = {"male", "female"}
        /\ op.ret.status = 200

\* A voice turn whose transcriber returned a non-empty transcript
Transcribed(o) ==
    /\ o.name = "handle_voice_input"
    /\ o.user_text.t = "str"
    /\ o.user_text.s # ""

\* The turn gave the result, the session and the history of the turn r
SameTurn(r, ret, session, history) ==
    /\ ret = r.ret
    /\ session = r.session
    /\ history = r.history

\* C20: for every non-empty transcript T and every behaviour of the
\* classifier, the news provider and the synthesizer, handle_voice_input whose
\* transcriber returns T gives the same (text, audio) result, the same session
\* and the same history as handle_text_input(T) with the same voice selector.
C20_VoiceAsText ==
    [][Transcribed(op') =>
          SameTurn(handle_text_input(current_session, conversation_history,
                                     op'.world, op'.user_text.s, op'.voice_type),
                   op'.ret, current_session', conversation_history')]_vars

\* The formatter was applied to op.articles and op.category
Formatted(o) == o.name = "format_news_for_speech"

StartsWith(prefix, s) == Len(s) >= Len(prefix) /\ SubSeq(s, 1, Len(prefix)) = prefix

\* The first line of s
RECURSIVE FirstLineFrom(_, _)
FirstLineFrom(s, i) ==
    IF i > Len(s) \/ SubSeq(s, i, i) = "\n" THEN SubSeq(s, 1, i - 1)
    ELSE FirstLineFrom(s, i + 1)

\* The apology of the formatter for a batch without articles
NoNewsApology(o) ==
    Ret("Sorry, I couldn't fetch any news for " \o o.category.s \o " at the moment.")

OddDescription(o) ==
    \E i \in 1..Len(o.articles.items) :
        o.articles.items[i].d.description.t \notin {"str", "none"}

C21_WitnessEmpty ==
    /\ Formatted(op)
    /\ Len(op.articles.items) = 0
    /\ op.out = Ret("Sorry, I couldn't fetch any news for technology at the moment.")

\* The description of an article is to be read out: non-empty and not the title
Described(article) ==
    /\ article.d.description.t = "str"
    /\ article.d.description.s # ""
    /\ article.d.description # article.d.title

\* What the claim has an article contribute: the headline, then the first 25
\* words of the description, with the ellipsis when words were left out
Contribution(i, article) ==
    "Headline " \o ToString(i) \o ": " \o article.d.title.s \o ". "
    \o (IF Described(article)
        THEN JoinStr(" ", Take(Split(article.d.description.s), 25))
             \o (IF Len(Split(article.d.description.s)) > 25 THEN "..." ELSE "")
             \o " "
        ELSE "")
    \o "\n\n"

RECURSIVE Contributions(_, _)
Contributions(i, items) ==
    IF i > Len(items) THEN "" ELSE Contribution(i, items[i]) \o Contributions(i + 1, items)

\* C22: in the voice-oriented formatter each article contributes
\* "Headline {number}: {title}. " and then, only if its description is
\* non-empty and differs from the title, the first 25 words of the
\* description; the ellipsis is appended if and only if the description was
\* truncated (it has more than 25 words); a description of 25 words or fewer
\* is emitted whole, without ellipsis.
C22_EllipsisIffTruncated ==
    (Formatted(op) /\ IsRet(op.out) /\ Len(op.articles.items) > 0) =>
        op.out.ret = "Here are the top " \o op.category.s \o " news headlines:\n\n"
                     \o Contributions(1, op.articles.items)

\* h is an initial segment of g
Prefix(h, g) == Len(h) <= Len(g) /\ SubSeq(g, 1, Len(h)) = h

\* The request holds the system prompt and then the k most recent of the first
\* n entries stored in h, oldest first
WindowOf(messages, h, n, k) ==
    /\ Len(messages) = 1 + k
    /\ messages[1].role = "system"
    /\ \A j \in 1..k : messages[1 + j] = h[n - k + j]

\* C23: the classifier's history is append-only and windowed: a turn removes
\* or rewrites no stored entry (only clear_session empties the history), and
\* the request process_user_input builds holds the system prompt followed by
\* only the most recent min(5, n) of the n stored entries, oldest first, the
\* last of them being the current user message.
C23_AppendOnlyWindowed ==
    [][/\ op'.name # "clear_session" => Prefix(conversation_history, conversation_history')
       /\ Classified(op') =>
              /\ WindowOf(op'.messages, conversation_history',
                          Len(conversation_history) + 1,
                          Smaller(5, Len(conversation_history) + 1))
              /\ op'.messages[Len(op'.messages)] =
                     [role |-> "user", content |-> op'.user_text.s]]_vars

\* A turn on a history of 6 entries that got its reply: the request holds the
\* entries 3 to 7 of the 8 now stored
C23_Witness ==
    /\ Classified(op)
    /\ Len(conversation_history) = 8
    /\ conversation_history[8].role = "assistant"
    /\ Len(op.messages) = 6
    /\ op.messages[2] = conversation_history[3]
    /\ op.messages[2] # conversation_history[2]

\* The turn wrote the session: it fetched or searched, and its branch returned
Wrote(o) == IsTurn(o) /\ Len(NewsCalls(o)) > 0 /\ ~BranchRaised(o)

\* Field f of the session, NoField when the session holds none
NoField == [t |-> "absent"]
Field(session, f) == DictGet(session, f, NoField)

\* A fetch is the last writer of the session: last_action and last_news_data
\* are its own, last_category is its category
FetchIsCurrent(session, o) ==
    /\ Field(session, "last_action") = StrV("news_fetch")
    /\ Field(session, "last_news_data") = TurnNewsResult(o)
    /\ Field(session, "last_category") = DictGet(o.ai_response.d, "category", StrV("general"))

\* A search is the last writer of the session
SearchIsCurrent(session, o) ==
    /\ Field(session, "last_action") = StrV("news_search")
    /\ Field(session, "last_news_data") = TurnNewsResult(o)
    /\ Field(session, "last_search") = o.ai_response.d.search_query

\* C24: last writer wins on the session.  A turn that writes the session
\* leaves last_action naming its kind and last_news_data holding its own
\* result; a fetch sets last_category and leaves last_search as it was, a
\* search sets last_search and leaves last_category as it was; a turn that
\* does not write leaves all four fields; clear_session removes them.  So
\* after any sequence of turns the field last_action names is the current one.
C24_LastWriterWins ==
    [][CASE Wrote(op') /\ Branch(op'.ai_response) = "fetch_news" ->
                 /\ FetchIsCurrent(current_session', op')
                 /\ Field(current_session', "last_search") = Field(current_session, "last_search")
         [] Wrote(op') /\ Branch(op'.ai_response) = "search_news" ->
                 /\ SearchIsCurrent(current_session', op')
                 /\ Field(current_session', "last_category")
                        = Field(current_session, "last_category")
         [] op'.name = "clear_session" ->
                 \A f \in {"last_action", "last_news_data", "last_category", "last_search"} :
                     Field(current_session', f) = NoField
         [] OTHER ->
                 \A f \in {"last_action", "last_news_data", "last_category", "last_search"} :
                     Field(current_session', f) = Field(current_session, f)]_vars

\* A search after a fetch: last_action names the search, whose result is
\* stored, and the category of the fetch is still there
C24_Witness ==
    /\ Wrote(op)
    /\ Branch(op.ai_response) = "search_news"
    /\ SearchIsCurrent(current_session, op)
    /\ Field(current_session, "last_category") = StrV("sports")
    /\ Len(current_session.last_news_data.items) = 1

\* A fetch after a search
C24_WitnessFetch ==
    /\ Wrote(op)
    /\ Branch(op.ai_response) = "fetch_news"
    /\ FetchIsCurrent(current_session, op)
    /\ Field(current_session, "last_search") = StrV("mars")

\* v is a sequence of normalized articles
ArticleSequence(v) ==
    /\ v.t = "list"
    /\ \A i \in 1..Len(v.items) :
           /\ v.items[i].t = "dict"
           /\ DOMAIN v.items[i].d
                  = {"number", "title", "description", "source", "url", "publishedAt"}

\* C25: in every reachable state the session's last_news_data, when present,
\* is an ordered sequence of articles, never a mapping or any other shape,
\* whichever branch wrote it: named fetch, general digest or search.
C25_NewsDataIsSequence ==
    "last_news_data" \in DOMAIN current_session =>
        ArticleSequence(current_session.last_news_data)

\* The place of a collaborator call in a turn
StepOf(fn) ==
    CASE fn = "transcribe_audio" -> 1
      [] fn = "process_user_input" -> 2
      [] fn \in {"get_top_headlines", "search_news"} -> 3
      [] fn = "synthesize_speech" -> 4

\* C26: within one turn the collaborator calls happen in the order transcribe,
\* classify, news fetches, synthesize, and nothing is retried: the
\* transcriber, the classifier and the synthesizer are each called at most
\* once and a news endpoint at most once per category, also when a call failed.
C26_SequentialNoRetry ==
    IsTurn(op) =>
        /\ \A i, j \in 1..Len(op.calls) :
               i < j => /\ StepOf(op.calls[i].fn) <= StepOf(op.calls[j].fn)
                        /\ [fn |-> op.calls[i].fn, arg |-> op.calls[i].arg]
                               # [fn |-> op.calls[j].fn, arg |-> op.calls[j].arg]
        /\ \A fn \in {"transcribe_audio", "process_user_input", "synthesize_speech"} :
               Len(CallsOf(op, {fn})) <= 1

\* A spoken request for the briefing where the sports fetch and the synthesis
\* failed: transcribe, classify, seven fetches, synthesize
C26_Witness ==
    /\ op.name = "handle_voice_input"
    /\ GeneralFetch(op)
    /\ FetchFailed(op, "sports")
    /\ SynthesisFails(op)
    /\ Len(op.calls) = 10
    /\ op.calls[1].fn = "transcribe_audio"
    /\ op.calls[10].fn = "synthesize_speech"

\* C26, the failed classification: the top-level handler synthesizes once
C26_WitnessError ==
    /\ op.name = "handle_voice_input"
    /\ TopLevelHandlerRan(op)
    /\ Len(SynthCalls(op)) = 1

\* The last news result of the session: the stored value, nothing when the
\* session holds none
LastNews(session) == DictGet(session, "last_news_data", ListV(<<>>))

\* The n-th article of the last news result exists
HasArticle(session, n) ==
    /\ n >= 1
    /\ IF LastNews(session).t = "list"
       THEN n <= Len(LastNews(session).items)
       ELSE n <= Cardinality(DOMAIN LastNews(session).d)

\* C27: get_detailed_article(n) raises in no reachable session state: it
\* returns the details of the n-th article of the last news result when
\* 1 <= n <= its length, and the fixed "I don't have that article number"
\* message otherwise.
C27_DetailedArticleNeverRaises ==
    op.name = "get_detailed_article" =>
        /\ IsRet(op.out)
        /\ IF HasArticle(current_session, op.article_number)
           THEN StartsWith("Here's more detail about article "
                           \o ToString(op.article_number) \o ": ", op.out.ret)
           ELSE op.out.ret = "I don't have that article number. Please ask for a valid article number from the recent news."

\* The identifiers clients ask for
AudioIds == {AudioId(n) : n \in 0..MaxAudio}

\* The request just answered was a retrieval of K that received the bytes
Delivered(o, K) ==
    o.name = "serve_audio" /\ o.audio_id = K /\ o.response.status = 200

\* C28: in whatever order the retrievals of the same identifier K are served,
\* at most one receives the stored bytes: a retrieval receives them only
\* while K is in audio_storage, and once a retrieval has received them K is
\* absent from audio_storage in every later state.
C28_AtMostOneDelivery ==
    /\ [][\A K \in AudioIds :
              Delivered(op', K) => /\ K \in DOMAIN audio_storage
                                   /\ op'.response.content = audio_storage[K]]_vars
    /\ \A K \in AudioIds : [](Delivered(op, K) => [](K \notin DOMAIN audio_storage))

\* The first identifier was delivered while a second one is still stored
C28_Witness ==
    /\ Delivered(op, AudioId(0))
    /\ AudioId(0) \notin DOMAIN audio_storage
    /\ AudioId(1) \in DOMAIN audio_storage

\* A further retrieval of an identifier that was handed out: no bytes
C28_WitnessSecond ==
    /\ op.name = "serve_audio"
    /\ Registered(op.audio_id)
    /\ op.response.status = 500
    /\ op.audio_id \notin DOMAIN audio_storage

\* The request just answered was a text or voice request that got its answer
Answered(o) == o.name \in {"api_text", "api_voice"} /\ o.response.status = 200

\* C29: in every response of the /api/text and /api/voice handlers
\* audio_available is true if and only if audio_url is not null, that is if
\* and only if an entry for this response was registered in audio_storage.
C29_AvailableIffUrl ==
    [][Answered(op') =>
          /\ op'.response.audio_available <=> op'.response.audio_url # NoneV
          /\ op'.response.audio_url # NoneV <=>
                 /\ DOMAIN audio_storage' = DOMAIN audio_storage \cup {AudioId(next_audio_id)}
                 /\ AudioId(next_audio_id) \notin DOMAIN audio_storage
                 /\ op'.response.audio_url = StrV("/api/audio/" \o AudioId(next_audio_id))]_vars

\* The user message of the turn, as the history stores it
UserMessage(o) == [role |-> "user", content |-> o.user_text.s]

\* C30: each process_user_input call appends the user message before the
\* upstream request is made, and the assistant reply if and only if the
\* upstream call returned a reply, parseable or not: the history grows by 2
\* when the upstream call succeeded and by 1, the user message alone, when it
\* failed.
C30_HistoryGrowth ==
    [][Classified(op') =>
          /\ op'.messages[Len(op'.messages)] = UserMessage(op')
          /\ IF Replied(op')
             THEN /\ Len(conversation_history') = Len(conversation_history) + 2
                  /\ conversation_history' =
                         conversation_history
                         \o <<UserMessage(op'),
                              [role |-> "assistant", content |-> Strip(op'.up.content.s)]>>
             ELSE /\ Len(conversation_history') = Len(conversation_history) + 1
                  /\ conversation_history' = Append(conversation_history, UserMessage(op'))]_vars

\* The upstream call failed: the user message is the last entry
C30_Witness ==
    /\ Classified(op)
    /\ op.up.kind = "raise"
    /\ Len(conversation_history) = 1
    /\ conversation_history[1] = UserMessage(op)

\* An unparseable reply is stored all the same
C30_WitnessUnparseable ==
    /\ Replied(op)
    /\ op.up.content.s = T_truncated
    /\ Len(conversation_history) = 2
    /\ conversation_history[2] = [role |-> "assistant", content |-> T_truncated]

====
